---- MODULE Spec2Model ----
(***************************************************************************)
(* Model of the portfolio analytics core of xyanwu11/stockportfolio:       *)
(* the metrics bundle (utils.safe_calculate_metrics and the dashboard's    *)
(* calculate_performance_metrics), the drawdown segmentation loop of       *)
(* advanced_charts.calculate_drawdown_periods, the two aggregation paths   *)
(* (utils.safe_portfolio_calculation and show_performance_analysis), the   *)
(* composite score and recommendation, the stability metrics and diagnosis *)
(* of gpt_analysis, the rolling and tail risk charts, the dashboard's      *)
(* benchmark metrics, and the worker pool of app.get_stock_data.           *)
(*                                                                         *)
(* Numbers.  A float is modelled as a record [k, a, b]:                    *)
(*   k = "num"     the exact rational a = <<n, d>>, d > 0, gcd(n, d) = 1   *)
(*   k = "nan"     NaN                                                     *)
(*   k = "inf"     +/- infinity, sign in a[1]                              *)
(*   k = "ann"     (1 + a) ** 252 - 1 for a rational a # 0                 *)
(*   k = "vol"     sqrt(a) * sqrt(252) for a rational a > 0                *)
(*   k = "ann/vol" ((1 + a) ** 252 - 1) / (sqrt(b) * sqrt(252))            *)
(*   k = "ann*10"  ((1 + a) ** 252 - 1) * 10                               *)
(*   k = "a*252/vol"  (a * 252) / (sqrt(b) * sqrt(252)), a # 0, b > 0      *)
(*   k = "a/sqrt(b)"  a / sqrt(b) for rationals a # 0, b > 0               *)
(* Arithmetic is exact; binary rounding of IEEE doubles is not modelled.   *)
(***************************************************************************)
EXTENDS Integers, Sequences, FiniteSets, TLC

(* ------------------------------------------------------------------ *)
(* Exact rationals <<n, d>>                                           *)
(* ------------------------------------------------------------------ *)
Abs(x) == IF x < 0 THEN -x ELSE x

RECURSIVE Gcd(_, _)
Gcd(a, b) == IF b = 0 THEN a ELSE Gcd(b, a % b)

Norm(n, d) ==
    LET g == Gcd(Abs(n), Abs(d))
        s == IF d < 0 THEN -1 ELSE 1
    IN  <<s * (n \div g), s * (d \div g)>>

RAdd(x, y) ==
    LET g == Gcd(x[2], y[2])
    IN  Norm(x[1] * (y[2] \div g) + y[1] * (x[2] \div g), (x[2] \div g) * y[2])

RNeg(x) == <<-x[1], x[2]>>

RSub(x, y) == RAdd(x, RNeg(y))

RMul(x, y) ==
    LET g1 == Gcd(Abs(x[1]), y[2])
        g2 == Gcd(Abs(y[1]), x[2])
    IN  Norm((x[1] \div g1) * (y[1] \div g2), (x[2] \div g2) * (y[2] \div g1))

RInv(y) == IF y[1] < 0 THEN <<-y[2], -y[1]>> ELSE <<y[2], y[1]>>

RDiv(x, y) == RMul(x, RInv(y))

RLess(x, y) ==
    LET g == Gcd(x[2], y[2])
    IN  x[1] * (y[2] \div g) < y[1] * (x[2] \div g)

RLeq(x, y) == ~RLess(y, x)

RZero == <<0, 1>>
ROne == <<1, 1>>

(* ------------------------------------------------------------------ *)
(* Float values                                                       *)
(* ------------------------------------------------------------------ *)
Num(r) == [k |-> "num", a |-> r, b |-> RZero]
NaN == [k |-> "nan", a |-> RZero, b |-> RZero]
Inf(s) == [k |-> "inf", a |-> <<s, 1>>, b |-> RZero]
Zero == Num(RZero)
Pct(n) == Num(Norm(n, 100))

IsNaN(v) == v.k = "nan"
IsNum(v) == v.k = "num"
\* a finite, defined number (an exact rational or one of the symbolic finite forms)
IsDefined(v) == v.k \notin {"nan", "inf"}
\* the sign of a finite value: -1, 0, 1
Sign(v) ==
    IF v.a[1] < 0 THEN -1 ELSE IF v.a[1] > 0 THEN 1 ELSE 0

\* (1 + mean) ** 252 - 1
Annualize(mean) ==
    IF IsNaN(mean) THEN NaN
    ELSE IF mean.a = RZero THEN Zero
    ELSE [k |-> "ann", a |-> mean.a, b |-> RZero]

\* std() * np.sqrt(252), given the variance std() takes the root of
AnnualizedStd(variance) ==
    IF IsNaN(variance) THEN NaN
    ELSE IF variance.a = RZero THEN Zero
    ELSE [k |-> "vol", a |-> variance.a, b |-> RZero]

\* x / y on numpy floats: no exception, inf or nan on a zero divisor
FloatDiv(x, y) ==
    IF IsNaN(x) \/ IsNaN(y) THEN NaN
    ELSE IF y = Zero THEN (IF x = Zero THEN NaN ELSE Inf(Sign(x)))
    ELSE IF x = Zero THEN Zero
    ELSE IF IsNum(x) /\ IsNum(y) THEN Num(RDiv(x.a, y.a))
    ELSE [k |-> "ann/vol", a |-> x.a, b |-> y.a]

\* x * 10
Times10(x) ==
    IF IsNaN(x) THEN NaN
    ELSE IF IsNum(x) THEN Num(RMul(x.a, <<10, 1>>))
    ELSE [k |-> "ann*10", a |-> x.a, b |-> RZero]

(* ------------------------------------------------------------------ *)
(* pandas Series operations; a Series is a sequence of cells, each    *)
(* Num(r) or NaN, observation i of the code at position i + 1         *)
(* ------------------------------------------------------------------ *)
\* Series.dropna()
DropNa(s) == SelectSeq(s, LAMBDA v : ~IsNaN(v))

\* Series.isna().all()
AllNa(s) == \A i \in 1..Len(s) : IsNaN(s[i])

\* the product of (1 + s[t]) over i < t <= j: cumulative[j] / cumulative[i]
RECURSIVE Growth(_, _, _)
Growth(s, i, j) ==
    IF j <= i THEN ROne
    ELSE RMul(Growth(s, i, j - 1), RAdd(ROne, s[j].a))

\* (1 + s).prod()
SeriesProd(s) == Growth(s, 0, Len(s))

RECURSIVE SeriesSum(_)
SeriesSum(s) ==
    IF s = <<>> THEN RZero ELSE RAdd(s[1].a, SeriesSum(Tail(s)))

\* Series.mean(): NaN on an empty Series
SeriesMean(s) ==
    IF s = <<>> THEN NaN ELSE Num(RDiv(SeriesSum(s), <<Len(s), 1>>))

RECURSIVE SumSqDev(_, _)
SumSqDev(s, m) ==
    IF s = <<>> THEN RZero
    ELSE LET dev == RSub(s[1].a, m)
         IN  RAdd(RMul(dev, dev), SumSqDev(Tail(s), m))

\* the variance Series.std() takes the root of (ddof = 1): NaN below 2 values
SeriesVar(s) ==
    IF Len(s) < 2 THEN NaN
    ELSE Num(RDiv(SumSqDev(s, SeriesMean(s).a), <<Len(s) - 1, 1>>))

\* cumulative.expanding().max() at position t, as the position of the
\* (first) running maximum of cumulative = (1 + s).cumprod()
PeakIndex(s, t) ==
    CHOOSE p \in 1..t :
        /\ \A u \in 1..t : IF u <= p THEN RLeq(ROne, Growth(s, u, p))
                                     ELSE RLeq(Growth(s, p, u), ROne)
        /\ \A u \in 1..(p - 1) : RLess(ROne, Growth(s, u, p))

\* drawdown = (cumulative - rolling_max) / rolling_max at position t,
\* which is cumulative[t] / cumulative[peak] - 1
DrawdownAt(s, t) == RSub(Growth(s, PeakIndex(s, t), t), ROne)

Drawdown(s) == [t \in 1..Len(s) |-> Num(DrawdownAt(s, t))]

\* Series.min(): NaN on an empty Series
RECURSIVE SeriesMin(_)
SeriesMin(s) ==
    IF s = <<>> THEN NaN
    ELSE IF Len(s) = 1 THEN s[1]
    ELSE LET m == SeriesMin(Tail(s))
         IN  IF RLess(m.a, s[1].a) THEN m ELSE s[1]

\* (s > 0).mean()
WinRate(s) ==
    IF s = <<>> THEN NaN
    ELSE Num(Norm(Len(SelectSeq(s, LAMBDA v : RLess(RZero, v.a))), Len(s)))

\* s[s < 0]
Downside(s) == SelectSeq(s, LAMBDA v : RLess(v.a, RZero))

RECURSIVE Insert(_, _)
Insert(v, s) ==
    IF s = <<>> THEN <<v>>
    ELSE IF RLeq(v.a, s[1].a) THEN <<v>> \o s
    ELSE <<s[1]>> \o Insert(v, Tail(s))

RECURSIVE Sorted(_)
Sorted(s) == IF s = <<>> THEN <<>> ELSE Insert(s[1], Sorted(Tail(s)))

\* Series.quantile(q), linear interpolation between order statistics
Quantile(s, q) ==
    IF s = <<>> THEN NaN
    ELSE LET x == Sorted(s)
             h == RMul(<<Len(s) - 1, 1>>, q)
             lo == h[1] \div h[2]
             frac == RSub(h, <<lo, 1>>)
         IN  IF frac = RZero THEN x[lo + 1]
             ELSE Num(RAdd(x[lo + 1].a,
                           RMul(frac, RSub(x[lo + 2].a, x[lo + 1].a))))

(* ------------------------------------------------------------------ *)
(* The metrics bundle: a dict from statistic name to float            *)
(* ------------------------------------------------------------------ *)
Stats == {"total_return", "annual_return", "annual_volatility", "sharpe",
          "max_drawdown", "win_rate", "var_95", "sortino"}

\* the dict {} both implementations' callers read as "no data"
EmptyBundle == [s \in {} |-> NaN]

\* mutant of SharpeOf: the division without its zero-volatility guard
SharpeUnguarded(ann, vol) == FloatDiv(ann, vol)

\* metrics['sharpe'] = annual_return / annual_volatility if annual_volatility != 0 else 0
SharpeOf(ann, vol) == IF vol # Zero THEN FloatDiv(ann, vol) ELSE Zero

\* the Sortino branch of safe_calculate_metrics
SafeSortinoOf(clean, ann) ==
    LET downside_returns == Downside(clean)
        downside_deviation == AnnualizedStd(SeriesVar(downside_returns))
    IN  IF Len(downside_returns) > 0
        THEN (IF downside_deviation # Zero
              THEN FloatDiv(ann, downside_deviation) ELSE Zero)
        ELSE Times10(ann)

\* the Sortino lines of calculate_performance_metrics: no branch on an
\* empty downside set
PerfSortinoOf(returns, ann) ==
    LET downside_returns == Downside(returns)
        downside_deviation == AnnualizedStd(SeriesVar(downside_returns))
    IN  IF downside_deviation # Zero
        THEN FloatDiv(ann, downside_deviation) ELSE Zero

\* mutant of FailDefault: every except: branch assigns 0
FailDefaultAlwaysZero(stat) == Zero

\* the value an except: branch of safe_calculate_metrics assigns
FailDefault(stat) == IF stat = "win_rate" THEN Num(<<1, 2>>) ELSE Zero

\* one try/except block: the computed value, or the default when the
\* computation of that statistic raises
Try(stat, fault, value) == IF fault = stat THEN FailDefault(stat) ELSE value

\* the try blocks of safe_calculate_metrics on the cleaned series; fault
\* names the statistic whose computation raises ("none": no exception)
SafeBundle(clean, fault) ==
    LET total == Try("total_return", fault, Num(RSub(SeriesProd(clean), ROne)))
        ann == Try("annual_return", fault, Annualize(SeriesMean(clean)))
        vol == Try("annual_volatility", fault, AnnualizedStd(SeriesVar(clean)))
        sharpe == Try("sharpe", fault, SharpeOf(ann, vol))
        mdd == Try("max_drawdown", fault, SeriesMin(Drawdown(clean)))
        win == Try("win_rate", fault, WinRate(clean))
        var95 == Try("var_95", fault, Quantile(clean, <<1, 20>>))
        sortino == Try("sortino", fault, SafeSortinoOf(clean, ann))
    IN  [s \in Stats |->
            CASE s = "total_return" -> total
              [] s = "annual_return" -> ann
              [] s = "annual_volatility" -> vol
              [] s = "sharpe" -> sharpe
              [] s = "max_drawdown" -> mdd
              [] s = "win_rate" -> win
              [] s = "var_95" -> var95
              [] s = "sortino" -> sortino]

\* utils.safe_calculate_metrics(returns): input [none, vals], none for
\* returns = None; result [metrics, ui], ui the st.warning messages shown
safe_calculate_metrics(returns, fault) ==
    IF returns.none \/ Len(returns.vals) = 0
    THEN [metrics |-> EmptyBundle, ui |-> {"warn_empty"}]
    ELSE IF AllNa(returns.vals)
    THEN [metrics |-> EmptyBundle, ui |-> {"warn_all_nan"}]
    ELSE LET clean_returns == DropNa(returns.vals)
         IN  IF Len(clean_returns) = 0
             THEN [metrics |-> EmptyBundle, ui |-> {"warn_clean_empty"}]
             ELSE [metrics |-> SafeBundle(clean_returns, fault), ui |-> {}]

\* app.calculate_performance_metrics / portfolio_analysis.calculate_performance_metrics
\* (the same lines in both files) on a Series without missing values
calculate_performance_metrics(returns) ==
    LET total == Num(RSub(SeriesProd(returns), ROne))
        ann == Annualize(SeriesMean(returns))
        vol == AnnualizedStd(SeriesVar(returns))
        sharpe == SharpeOf(ann, vol)
        mdd == SeriesMin(Drawdown(returns))
        win == WinRate(returns)
        var95 == Quantile(returns, <<1, 20>>)
        sortino == PerfSortinoOf(returns, ann)
    IN  [s \in Stats |->
            CASE s = "total_return" -> total
              [] s = "annual_return" -> ann
              [] s = "annual_volatility" -> vol
              [] s = "sharpe" -> sharpe
              [] s = "max_drawdown" -> mdd
              [] s = "win_rate" -> win
              [] s = "var_95" -> var95
              [] s = "sortino" -> sortino]

(* ------------------------------------------------------------------ *)
(* advanced_charts.calculate_drawdown_periods: the segmentation loop  *)
(* ------------------------------------------------------------------ *)
\* in_drawdown = drawdown < 0 at the code's (0-based) index i
InDrawdown(s, i) == RLess(DrawdownAt(s, i + 1), RZero)

\* drawdown.iloc[start:i].min()
SliceMin(s, start, i) == SeriesMin(SubSeq(Drawdown(s), start + 1, i))

\* mutant of Episode: the duration counts the recovery observation too
EpisodeInclusive(s, start, i) ==
    [start |-> start, end |-> i, duration |-> i - start + 1,
     depth |-> SliceMin(s, start, i)]

\* the dict appended when a drawdown closes at index i
Episode(s, start, i) ==
    [start |-> start, end |-> i, duration |-> i - start,
     depth |-> SliceMin(s, start, i)]

(* ------------------------------------------------------------------ *)
(* pandas DataFrame operations; a price table is [cols, n, col]: the  *)
(* set of column names, the number of rows, and each column's cells   *)
(* ------------------------------------------------------------------ *)
\* DataFrame.empty
FrameEmpty(df) == df.cols = {} \/ df.n = 0

\* Series.ffill(): a missing cell takes the last value before it
RECURSIVE Ffill(_)
Ffill(c) ==
    IF c = <<>> THEN <<>>
    ELSE LET front == Ffill(SubSeq(c, 1, Len(c) - 1))
             last == c[Len(c)]
         IN  IF IsNaN(last) /\ Len(front) > 0
             THEN Append(front, front[Len(front)])
             ELSE Append(front, last)

\* mutant of Change: the difference is divided by the new price
ChangeOverNewPrice(c) ==
    [t \in 1..Len(c) |->
        IF t = 1 THEN NaN
        ELSE IF IsNaN(c[t]) \/ IsNaN(c[t - 1]) THEN NaN
        ELSE Num(RSub(ROne, RDiv(c[t - 1].a, c[t].a)))]

\* data / data.shift() - 1 on one column
Change(c) ==
    [t \in 1..Len(c) |->
        IF t = 1 THEN NaN
        ELSE IF IsNaN(c[t]) \/ IsNaN(c[t - 1]) THEN NaN
        ELSE Num(RSub(RDiv(c[t].a, c[t - 1].a), ROne))]

\* DataFrame.pct_change() with its default fill_method: pandas before 3.0
\* forward-fills the prices first (pad), pandas 3.0 does not
PctChange(df, pad) ==
    [df EXCEPT !.col = [c \in df.cols |->
        IF pad THEN Change(Ffill(df.col[c])) ELSE Change(df.col[c])]]

\* the rows DataFrame.dropna() keeps: those without a missing cell
KeptRows(df) ==
    {t \in 1..df.n : \A c \in df.cols : ~IsNaN(df.col[c][t])}

RECURSIVE PickRows(_, _, _)
PickRows(c, rows, t) ==
    IF t > Len(c) THEN <<>>
    ELSE (IF t \in rows THEN <<c[t]>> ELSE <<>>) \o PickRows(c, rows, t + 1)

\* DataFrame.dropna()
DropNaRows(df) ==
    LET rows == KeptRows(df)
    IN  [cols |-> df.cols, n |-> Cardinality(rows),
         col |-> [c \in df.cols |-> PickRows(df.col[c], rows, 1)]]

\* df[list(keys)], keys a subset of the columns
Select(df, keys) ==
    [cols |-> keys, n |-> df.n, col |-> [c \in keys |-> df.col[c]]]

RECURSIVE WeightedRow(_, _, _, _)
WeightedRow(df, w, keys, t) ==
    IF keys = {} THEN RZero
    ELSE LET c == CHOOSE x \in keys : TRUE
         IN  RAdd(RMul(df.col[c][t].a, w[c]),
                  WeightedRow(df, w, keys \ {c}, t))

\* (df * pd.Series(w)).sum(axis=1), df without missing cells and with the
\* keys of w as its columns; 0.0 in every row when there is no column
WeightedSum(df, w) ==
    [t \in 1..df.n |-> Num(WeightedRow(df, w, df.cols, t))]

RECURSIVE SumWeights(_, _)
SumWeights(w, keys) ==
    IF keys = {} THEN RZero
    ELSE LET c == CHOOSE x \in keys : TRUE
         IN  RAdd(w[c], SumWeights(w, keys \ {c}))

\* sum(weights.values())
WeightTotal(w) == SumWeights(w, DOMAIN w)

\* {k: v / total for k, v in weights.items()}
Normalized(w, total) == [k \in DOMAIN w |-> RDiv(w[k], total)]

\* {k: v for k, v in weights.items() if k in keep}
Restrict(w, keep) == [k \in (DOMAIN w) \cap keep |-> w[k]]

NoWeights == [k \in {} |-> RZero]

\* abs(weight_sum - 1.0) > 0.01
OffByMoreThanTolerance(weight_sum) ==
    LET diff == RSub(weight_sum, ROne)
    IN  RLess(<<1, 100>>, <<Abs(diff[1]), diff[2]>>)

(* ------------------------------------------------------------------ *)
(* The two aggregation paths                                          *)
(* ------------------------------------------------------------------ *)
\* what safe_portfolio_calculation returns after st.error: pd.Series()
AggregationFailed(ui) ==
    [returns |-> <<>>, index |-> {}, applied |-> NoWeights, ui |-> ui]

\* utils.safe_portfolio_calculation(stock_data, weights, portfolio_name):
\* result [returns, index, applied, ui]: the values of the Series returned,
\* its index as the rows of stock_data it holds a value for, the weights
\* multiplied into the returns at the last line, the st.warning / st.error
\* messages
safe_portfolio_calculation(stock_data, weights, pad) ==
    IF FrameEmpty(stock_data) THEN AggregationFailed({"error_no_stock_data"})
    ELSE IF DOMAIN weights = {} THEN AggregationFailed({"error_no_weights"})
    ELSE
    LET weight_sum == WeightTotal(weights)
        off == OffByMoreThanTolerance(weight_sum)
        ui1 == IF off THEN {"warning_weights_normalized"} ELSE {}
        weights1 == IF off THEN Normalized(weights, weight_sum) ELSE weights
        changes == PctChange(stock_data, pad)
        rets == DropNaRows(changes)
    IN  IF FrameEmpty(rets) THEN AggregationFailed(ui1 \cup {"error_no_returns"})
        ELSE
        LET missing_stocks == (DOMAIN weights1) \ rets.cols
            ui2 == IF missing_stocks # {}
                   THEN ui1 \cup {"warning_missing_stocks"} ELSE ui1
            weights2 == IF missing_stocks # {}
                        THEN Restrict(weights1, (DOMAIN weights1) \ missing_stocks)
                        ELSE weights1
        IN  IF DOMAIN weights2 = {}
            THEN AggregationFailed(ui2 \cup {"error_no_usable_stocks"})
            ELSE [returns |-> WeightedSum(Select(rets, DOMAIN weights2), weights2),
                  index |-> KeptRows(changes),
                  applied |-> weights2,
                  ui |-> ui2]

\* calculate_portfolio_returns(price_data, weights), the same lines in
\* app.py and portfolio_analysis.py
calculate_portfolio_returns(price_data, weights, pad) ==
    WeightedSum(DropNaRows(PctChange(price_data, pad)), weights)

\* the index of the Series calculate_portfolio_returns returns: the rows
\* of price_data that pct_change().dropna() keeps
ReturnIndex(price_data, pad) == KeptRows(PctChange(price_data, pad))

\* the weights both callers pass on: filtered to the columns of stock_data,
\* then divided by their total
AvailableWeights(stock_data, weights) ==
    LET available == Restrict(weights, stock_data.cols)
    IN  Normalized(available, WeightTotal(available))

\* app.show_performance_analysis for one of its two portfolios, from the
\* fetched table to the metrics bundle: result [shown, returns, index,
\* applied, metrics, ui], shown = TRUE when it went on to compute and display metrics
show_performance_analysis(stock_data, weights, pad) ==
    IF FrameEmpty(stock_data)
    THEN [shown |-> FALSE, returns |-> <<>>, index |-> {}, applied |-> NoWeights,
          metrics |-> EmptyBundle, ui |-> {"error_no_stock_data"}]
    ELSE LET available_weights == AvailableWeights(stock_data, weights)
             rets == calculate_portfolio_returns(
                        Select(stock_data, DOMAIN available_weights),
                        available_weights, pad)
         IN  [shown |-> TRUE, returns |-> rets,
              index |-> ReturnIndex(Select(stock_data, DOMAIN available_weights), pad),
              applied |-> available_weights,
              metrics |-> calculate_performance_metrics(rets), ui |-> {}]

\* portfolio_analysis.backtest_portfolios for one of its two portfolios:
\* the same steps, printing instead of st.error
backtest_portfolios(stock_data, weights, pad) ==
    IF FrameEmpty(stock_data)
    THEN [shown |-> FALSE, returns |-> <<>>, index |-> {}, applied |-> NoWeights,
          metrics |-> EmptyBundle, ui |-> {"print_no_stock_data"}]
    ELSE LET available_weights == AvailableWeights(stock_data, weights)
             rets == calculate_portfolio_returns(
                        Select(stock_data, DOMAIN available_weights),
                        available_weights, pad)
         IN  [shown |-> TRUE, returns |-> rets,
              index |-> ReturnIndex(Select(stock_data, DOMAIN available_weights), pad),
              applied |-> available_weights,
              metrics |-> calculate_performance_metrics(rets), ui |-> {}]

\* Series.pct_change() with its default fill_method
SeriesPctChange(c, pad) == IF pad THEN Change(Ffill(c)) ELSE Change(c)

\* app.show_performance_analysis: benchmark_returns
BenchmarkReturns(prices, pad) ==
    IF prices = <<>> THEN <<>> ELSE DropNa(SeriesPctChange(prices, pad))

\* app.show_performance_analysis: benchmark_metrics
BenchmarkMetrics(benchmark_returns) ==
    IF benchmark_returns = <<>> THEN EmptyBundle
    ELSE calculate_performance_metrics(benchmark_returns)

(* ------------------------------------------------------------------ *)
(* Python float arithmetic on the values of a bundle: a rational or   *)
(* NaN; a comparison with NaN is False                                *)
(* ------------------------------------------------------------------ *)
FAdd(x, y) == IF IsNaN(x) \/ IsNaN(y) THEN NaN ELSE Num(RAdd(x.a, y.a))
FSub(x, y) == IF IsNaN(x) \/ IsNaN(y) THEN NaN ELSE Num(RSub(x.a, y.a))
FMul(x, y) == IF IsNaN(x) \/ IsNaN(y) THEN NaN ELSE Num(RMul(x.a, y.a))
\* abs(x)
FAbs(x) == IF IsNaN(x) THEN NaN ELSE Num(<<Abs(x.a[1]), x.a[2]>>)
\* x < y
FLess(x, y) == ~IsNaN(x) /\ ~IsNaN(y) /\ RLess(x.a, y.a)
\* x > y
FGreater(x, y) == FLess(y, x)

(* ------------------------------------------------------------------ *)
(* The composite score and the recommendation                         *)
(* ------------------------------------------------------------------ *)
\* config.SCORE_WEIGHTS
SCORE_WEIGHTS ==
    [sharpe_ratio |-> Num(Norm(4, 10)),
     max_drawdown |-> Num(Norm(3, 10)),
     win_rate |-> Num(Norm(3, 10))]

\* mutant of CompositeScore: the weights of the Sharpe ratio and of the
\* win rate exchanged
CompositeScoreWeightsSwapped(m) ==
    FAdd(FAdd(FMul(m.sharpe, Num(Norm(3, 10))),
              FMul(FSub(Num(ROne), FAbs(m.max_drawdown)), Num(Norm(3, 10)))),
         FMul(m.win_rate, Num(Norm(4, 10))))

\* mutant of CompositeScore: the drawdown term rewards a deeper drawdown
CompositeScoreDeeperIsBetter(m) ==
    FAdd(FAdd(FMul(m.sharpe, Num(Norm(4, 10))),
              FMul(FAdd(Num(ROne), FAbs(m.max_drawdown)), Num(Norm(3, 10)))),
         FMul(m.win_rate, Num(Norm(3, 10))))

\* app.show_comparison_analysis: gr_score / lr_score, with the literals
\* 0.4, 0.3, 0.3 of the code
CompositeScore(m) ==
    FAdd(FAdd(FMul(m.sharpe, Num(Norm(4, 10))),
              FMul(FSub(Num(ROne), FAbs(m.max_drawdown)), Num(Norm(3, 10)))),
         FMul(m.win_rate, Num(Norm(3, 10))))

\* portfolio_analysis.generate_analysis_report: gr_score / lr_score
ReportScore(m) ==
    FAdd(FAdd(FMul(m.sharpe, Num(Norm(4, 10))),
              FMul(FSub(Num(ROne), FAbs(m.max_drawdown)), Num(Norm(3, 10)))),
         FMul(m.win_rate, Num(Norm(3, 10))))

\* if gr_score > lr_score: high-return strategy, else: low-risk strategy
Recommend(gr_score, lr_score) ==
    IF FGreater(gr_score, lr_score) THEN "high_return" ELSE "low_risk"

\* app.show_comparison_analysis, from the two scores to the st.success line
show_comparison_analysis(gr, lr) ==
    LET gr_score == CompositeScore(gr)
        lr_score == CompositeScore(lr)
    IN  [gr_score |-> gr_score, lr_score |-> lr_score,
         recommended |-> Recommend(gr_score, lr_score)]

\* portfolio_analysis.generate_analysis_report: recommended_strategy
generate_analysis_report(gr, lr) ==
    LET gr_score == ReportScore(gr)
        lr_score == ReportScore(lr)
    IN  [gr_score |-> gr_score, lr_score |-> lr_score,
         recommended |-> Recommend(gr_score, lr_score)]

(* ------------------------------------------------------------------ *)
(* gpt_analysis: stability of a strategy between the historical and   *)
(* the forward period, and the diagnosis drawn from it                *)
(* ------------------------------------------------------------------ *)
\* metrics.get(key, 0) on a bundle that may lack the key
Get(m, key) == IF key \in DOMAIN m THEN m[key] ELSE Zero

\* the builtins min(a, b) and max(a, b): the first argument is kept unless
\* the second compares smaller (larger), so a NaN stays where it comes first
PyMin(a, b) == IF FLess(b, a) THEN b ELSE a
PyMax(a, b) == IF FGreater(b, a) THEN b ELSE a

\* mutant of StabilityScore: the ratio is not clamped at 0
StabilityScoreUnclamped(hist_val, forward_val) ==
    IF hist_val # Zero
    THEN FloatDiv(PyMin(hist_val, forward_val),
                  PyMax(PyMax(FAbs(hist_val), FAbs(forward_val)),
                        Num(Norm(1, 1000))))
    ELSE Zero

\* the body of the loop over key_metrics: what is appended to
\* stability_scores for one metric
StabilityScore(hist_val, forward_val) ==
    IF hist_val # Zero
    THEN LET ratio == FloatDiv(PyMin(hist_val, forward_val),
                               PyMax(PyMax(FAbs(hist_val), FAbs(forward_val)),
                                     Num(Norm(1, 1000))))
         IN  PyMax(Zero, ratio)
    ELSE Zero

key_metrics == <<"annual_return", "sharpe", "win_rate">>

\* np.mean(stability_scores)
calc_single_stability(hist_metrics, forward_metrics) ==
    LET stability_scores ==
            [i \in 1..Len(key_metrics) |->
                StabilityScore(Get(hist_metrics, key_metrics[i]),
                               Get(forward_metrics, key_metrics[i]))]
    IN  SeriesMean(stability_scores)

calculate_stability_metrics(gh, lh, gf, lf) ==
    [gr_stability |-> calc_single_stability(gh, gf),
     lr_stability |-> calc_single_stability(lh, lf)]

\* 1: stability of either strategy below 0.7
Overfitting(sm) ==
    \/ FLess(sm.gr_stability, Num(Norm(7, 10)))
    \/ FLess(sm.lr_stability, Num(Norm(7, 10)))

\* 2: forward_risk > hist_risk * 1.5
RiskUnderestimated(gh, lh, gf, lf) ==
    LET hist_risk == PyMax(FAbs(Get(gh, "max_drawdown")), FAbs(Get(lh, "max_drawdown")))
        forward_risk == PyMax(FAbs(Get(gf, "max_drawdown")), FAbs(Get(lf, "max_drawdown")))
    IN  FGreater(forward_risk, FMul(hist_risk, Num(Norm(3, 2))))

\* 3: forward_sharpe_avg < hist_sharpe_avg * 0.6
PoorAdaptability(gh, lh, gf, lf) ==
    LET hist_sharpe_avg ==
            FMul(FAdd(Get(gh, "sharpe"), Get(lh, "sharpe")), Num(Norm(1, 2)))
        forward_sharpe_avg ==
            FMul(FAdd(Get(gf, "sharpe"), Get(lf, "sharpe")), Num(Norm(1, 2)))
    IN  FLess(forward_sharpe_avg, FMul(hist_sharpe_avg, Num(Norm(6, 10))))

\* 4: forward_diff < hist_diff * 0.5
ReducedDifferentiation(gh, lh, gf, lf) ==
    LET hist_diff == FAbs(FSub(Get(gh, "annual_return"), Get(lh, "annual_return")))
        forward_diff == FAbs(FSub(Get(gf, "annual_return"), Get(lf, "annual_return")))
    IN  FLess(forward_diff, FMul(hist_diff, Num(Norm(1, 2))))

\* the four `if ...: problems.append(...)` blocks, in their order
Flagged(sm, gh, lh, gf, lf) ==
    (IF Overfitting(sm) THEN <<"overfitting">> ELSE <<>>)
    \o (IF RiskUnderestimated(gh, lh, gf, lf) THEN <<"risk_underestimation">> ELSE <<>>)
    \o (IF PoorAdaptability(gh, lh, gf, lf) THEN <<"adaptability">> ELSE <<>>)
    \o (IF ReducedDifferentiation(gh, lh, gf, lf) THEN <<"differentiation">> ELSE <<>>)

\* mutant of diagnose_problems: nothing is appended when no flag fires
diagnose_problems_silent(sm, gh, lh, gf, lf) == Flagged(sm, gh, lh, gf, lf)

\* gpt_analysis.diagnose_problems: the titles of the entries returned, when
\* building the descriptions raises nothing
diagnose_problems(sm, gh, lh, gf, lf) ==
    LET problems_found == Flagged(sm, gh, lh, gf, lf)
    IN  IF problems_found = <<>> THEN <<"stable">> ELSE problems_found

\* the divisors of the three divisions inside the f-string descriptions
HistRisk(gh, lh) ==
    PyMax(FAbs(Get(gh, "max_drawdown")), FAbs(Get(lh, "max_drawdown")))
HistSharpeAvg(gh, lh) ==
    FMul(FAdd(Get(gh, "sharpe"), Get(lh, "sharpe")), Num(Norm(1, 2)))
HistDiff(gh, lh) ==
    FAbs(FSub(Get(gh, "annual_return"), Get(lh, "annual_return")))

\* x / divisor inside a description: with numpy.float64 bundle values the
\* dividend of a firing flag is a nonzero numpy.float64 and the quotient is
\* inf (a RuntimeWarning); with builtin floats a zero divisor raises
DivisionRaises(np, divisor) == ~np /\ divisor = Zero

\* the exception that leaves diagnose_problems while it builds the
\* descriptions of the flags that fire, in their order; "none" when it returns
DescriptionError(np, gh, lh, gf, lf) ==
    IF RiskUnderestimated(gh, lh, gf, lf) /\ DivisionRaises(np, HistRisk(gh, lh))
    THEN "ZeroDivisionError"
    ELSE IF PoorAdaptability(gh, lh, gf, lf) /\ DivisionRaises(np, HistSharpeAvg(gh, lh))
    THEN "ZeroDivisionError"
    ELSE IF ReducedDifferentiation(gh, lh, gf, lf) /\ DivisionRaises(np, HistDiff(gh, lh))
    THEN "ZeroDivisionError"
    ELSE "none"

(* ------------------------------------------------------------------ *)
(* Rolling statistics: Series.rolling(window), min_periods = window,  *)
(* on Series without missing values and with the same index           *)
(* ------------------------------------------------------------------ *)
\* the observations a rolling statistic at position t is taken over
WindowAt(s, window, t) == SubSeq(s, t - window + 1, t)

\* Series.rolling(window).mean()
RollingMean(s, window) ==
    [t \in 1..Len(s) |->
        IF t < window THEN NaN ELSE SeriesMean(WindowAt(s, window, t))]

\* Series.rolling(window).var(), ddof = 1
RollingVar(s, window) ==
    [t \in 1..Len(s) |->
        IF t < window THEN NaN ELSE SeriesVar(WindowAt(s, window, t))]

RECURSIVE SumCoDev(_, _, _, _)
SumCoDev(x, mx, y, my) ==
    IF x = <<>> THEN RZero
    ELSE RAdd(RMul(RSub(x[1].a, mx), RSub(y[1].a, my)),
              SumCoDev(Tail(x), mx, Tail(y), my))

\* the sample covariance of two windows (ddof = 1): NaN below 2 values
SeriesCov(x, y) ==
    IF Len(x) < 2 THEN NaN
    ELSE Num(RDiv(SumCoDev(x, SeriesMean(x).a, y, SeriesMean(y).a),
                  <<Len(x) - 1, 1>>))

\* x.rolling(window).cov(y)
RollingCov(x, y, window) ==
    [t \in 1..Len(x) |->
        IF t < window THEN NaN
        ELSE SeriesCov(WindowAt(x, window, t), WindowAt(y, window, t))]

\* (mean * 252) / (std * np.sqrt(252)) at one position
SharpeCell(mean, variance) ==
    IF IsNaN(mean) \/ IsNaN(variance) THEN NaN
    ELSE IF variance = Zero THEN (IF mean = Zero THEN NaN ELSE Inf(Sign(mean)))
    ELSE IF mean = Zero THEN Zero
    ELSE [k |-> "a*252/vol", a |-> mean.a, b |-> variance.a]

\* cov / (std_x * std_y) at one position: 0 / 0 on a constant window
CorrCell(cov, var_x, var_y) ==
    IF IsNaN(cov) \/ IsNaN(var_x) \/ IsNaN(var_y) THEN NaN
    ELSE IF var_x = Zero \/ var_y = Zero THEN NaN
    ELSE IF cov = Zero THEN Zero
    ELSE [k |-> "a/sqrt(b)", a |-> cov.a, b |-> RMul(var_x.a, var_y.a)]

\* (r.rolling(w).mean() * 252) / (r.rolling(w).std() * np.sqrt(252))
RollingSharpe(s, window) ==
    LET mean == RollingMean(s, window)
        variance == RollingVar(s, window)
    IN  [t \in 1..Len(s) |-> SharpeCell(mean[t], variance[t])]

\* rolling_cov / rolling_var_lr
RollingBeta(x, y, window) ==
    LET cov == RollingCov(x, y, window)
        var_y == RollingVar(y, window)
    IN  [t \in 1..Len(x) |-> FloatDiv(cov[t], var_y[t])]

\* x.rolling(window).corr(y)
RollingCorr(x, y, window) ==
    LET cov == RollingCov(x, y, window)
        var_x == RollingVar(x, window)
        var_y == RollingVar(y, window)
    IN  [t \in 1..Len(x) |-> CorrCell(cov[t], var_x[t], var_y[t])]

\* r.rolling(window).std() * np.sqrt(252)
RollingVolatility(s, window) ==
    LET variance == RollingVar(s, window)
    IN  [t \in 1..Len(s) |-> AnnualizedStd(variance[t])]

\* advanced_charts.create_rolling_metrics_chart: the four Series plotted
create_rolling_metrics_chart(gr, lr, window) ==
    [gr_rolling_sharpe |-> RollingSharpe(gr, window),
     lr_rolling_sharpe |-> RollingSharpe(lr, window),
     rolling_beta |-> RollingBeta(gr, lr, window),
     rolling_corr |-> RollingCorr(gr, lr, window)]

\* app.show_risk_analysis: the two rolling volatility Series plotted
show_risk_analysis(gr, lr, window) ==
    [gr_rolling_vol |-> RollingVolatility(gr, window),
     lr_rolling_vol |-> RollingVolatility(lr, window)]

(* ------------------------------------------------------------------ *)
(* Tail risk: VaR at the confidence levels                            *)
(* ------------------------------------------------------------------ *)
\* confidence_levels = [0.90, 0.95, 0.99, 0.995]
confidence_levels == <<Norm(900, 1000), Norm(950, 1000), Norm(990, 1000), Norm(995, 1000)>>

\* mutant of VarLevel: the quantile is taken at the confidence level itself
VarLevelUpperTail(cl) == cl

\* the quantile level 1 - cl of the VaR at confidence cl
VarLevel(cl) == RSub(ROne, cl)

\* [returns.quantile(1 - cl) for cl in confidence_levels]
ValuesAtRisk(s) ==
    [i \in 1..Len(confidence_levels) |-> Quantile(s, VarLevel(confidence_levels[i]))]

\* mutant of TailOf: the returns strictly below the VaR
TailOfStrict(s, v) ==
    IF IsNaN(v) THEN <<>> ELSE SelectSeq(s, LAMBDA r : RLess(r.a, v.a))

\* returns[returns <= v]: nothing compares <= NaN
TailOf(s, v) ==
    IF IsNaN(v) THEN <<>> ELSE SelectSeq(s, LAMBDA r : RLeq(r.a, v.a))

\* [returns[returns <= returns.quantile(1 - cl)].mean() for cl in confidence_levels]
ExpectedShortfalls(s) ==
    [i \in 1..Len(confidence_levels) |->
        SeriesMean(TailOf(s, Quantile(s, VarLevel(confidence_levels[i]))))]

\* advanced_charts.create_tail_risk_analysis: gr_vars, lr_vars, gr_es, lr_es
create_tail_risk_analysis(gr, lr) ==
    [gr_vars |-> ValuesAtRisk(gr), lr_vars |-> ValuesAtRisk(lr),
     gr_es |-> ExpectedShortfalls(gr), lr_es |-> ExpectedShortfalls(lr)]

(* ------------------------------------------------------------------ *)
(* app.get_stock_data: fetch_single_stock, one task per symbol on a   *)
(* thread pool, and the dict the main loop collects the results in    *)
(* ------------------------------------------------------------------ *)
\* what one yf.download call can do: return data with a close column,
\* return nothing usable (data.empty, or no 'Adj Close' / 'Close' column),
\* or raise
Outcomes == {"series", "nothing", "raises"}

\* the data of a returned pair (symbol, None)
NoneData == <<>>

\* fetch_single_stock after the yf.download call of the given attempt (0 or
\* 1): [pc, data], pc = "sleeping" when it goes to the second attempt
AfterDownload(attempt, outcome, series) ==
    CASE outcome = "series" -> [pc |-> "returned", data |-> series]
      [] outcome = "nothing" -> [pc |-> "returned", data |-> NoneData]
      [] outcome = "raises" ->
            IF attempt = 0 THEN [pc |-> "sleeping", data |-> NoneData]
            ELSE [pc |-> "returned", data |-> NoneData]

\* stock_data[symbol_result] = data
AddColumn(df, c, series) ==
    [cols |-> df.cols \cup {c}, n |-> Len(series),
     col |-> [x \in df.cols \cup {c} |-> IF x = c THEN series ELSE df.col[x]]]

(* ------------------------------------------------------------------ *)
(* State                                                              *)
(* ------------------------------------------------------------------ *)
VARIABLES
    mode,        \* the component this run exercises
    returns,     \* metrics: the Series passed in, [none, vals]
    fault,       \* metrics: the statistic whose computation raises, or "none"
    safe_out,    \* metrics: what safe_calculate_metrics returned, [metrics, ui]
    perf_out,    \* metrics: what calculate_performance_metrics returned
    done,        \* metrics / aggregation: the functions that have returned
    dd_returns,  \* drawdown: the Series passed in
    dd_i,        \* drawdown: the loop index i of enumerate(in_drawdown)
    dd_start,    \* drawdown: start, <<>> for None, <<i>> for index i
    dd_periods,  \* drawdown: drawdown_periods
    dd_pc,       \* drawdown: "loop" or "returned"
    stock_data,  \* aggregation: the price table passed in
    weights,     \* aggregation: the weight map passed in
    fill_pad,    \* aggregation: whether the installed pandas pads in pct_change
    agg_out,     \* aggregation: what the aggregation function returned
    gr_metrics,  \* scoring: the bundle of the high-return strategy
    lr_metrics,  \* scoring: the bundle of the low-risk strategy
    score_out,   \* scoring: [gr_score, lr_score, recommended]
    gr_hist,     \* diagnosis: bundle of the high-return strategy, historical
    lr_hist,     \* diagnosis: bundle of the low-risk strategy, historical
    gr_forward,  \* diagnosis: bundle of the high-return strategy, forward
    lr_forward,  \* diagnosis: bundle of the low-risk strategy, forward
    stability_metrics,  \* diagnosis: [gr_stability, lr_stability]
    problems,    \* diagnosis: the titles diagnose_problems returned
    gr_returns,  \* charts: the return Series of the high-return strategy
    lr_returns,  \* charts: the return Series of the low-risk strategy
    chart_out,   \* charts: the Series or lists the chart function computed
    np_floats,   \* diagnosis: the bundle values are numpy.float64, not builtin floats
    raised,      \* the exception that left the function called, "none" when it returned
    benchmark_data,  \* benchmark: the price Series get_benchmark_data returned
    market,      \* fetch: the price Series the data source holds for each symbol
    calls,       \* fetch: per symbol, the outcomes of its yf.download calls so far
    fetch_pc,    \* fetch: per symbol, where its fetch_single_stock task is
    future,      \* fetch: per symbol, the data of the pair its task returned
    yielded,     \* fetch: the futures as_completed has yielded to the main loop
    columns,     \* fetch: the keys of the stock_data dict, in insertion order
    success_count,   \* fetch: success_count
    get_pc       \* fetch: where get_stock_data and its caller are

vars == <<mode, returns, fault, safe_out, perf_out, done,
          dd_returns, dd_i, dd_start, dd_periods, dd_pc,
          stock_data, weights, fill_pad, agg_out,
          gr_metrics, lr_metrics, score_out,
          gr_hist, lr_hist, gr_forward, lr_forward, stability_metrics, problems,
          gr_returns, lr_returns, chart_out,
          np_floats, raised, benchmark_data,
          market, calls, fetch_pc, future, yielded, columns, success_count, get_pc>>

metricsVars == <<returns, fault, safe_out, perf_out, done>>
ddVars == <<dd_returns, dd_i, dd_start, dd_periods, dd_pc>>
aggVars == <<stock_data, weights, fill_pad, agg_out>>
scoreVars == <<gr_metrics, lr_metrics, score_out>>
diagVars == <<gr_hist, lr_hist, gr_forward, lr_forward, stability_metrics, problems>>
chartVars == <<gr_returns, lr_returns, chart_out>>
fetchVars == <<market, calls, fetch_pc, future, yielded, columns, success_count, get_pc>>
extVars == <<np_floats, raised, benchmark_data, fetchVars>>

(* ------------------------------------------------------------------ *)
(* Bounds and input domains                                           *)
(* ------------------------------------------------------------------ *)
MaxLen == 3
DDMaxLen == 4
MaxRows == 3
\* the rolling windows, scaled down from the 252 observations of
\* create_rolling_metrics_chart and the 30 of show_risk_analysis
RollingWindow == 3
VolWindow == 2
RollMaxLen == 4
TailMaxLen == 11

\* daily returns offered to the metrics functions, NaN for a missing value
ReturnCells == {NaN, Pct(-5), Pct(-2), Pct(0), Pct(1), Pct(10)}

\* daily returns offered to the drawdown analysis
DDReturnCells == {Pct(-50), Pct(-5), Pct(-2), Pct(0), Pct(1), Pct(10), Pct(100)}

SeqsUpTo(S, n) == UNION {[1..k -> S] : k \in 0..n}

\* longer Series over fewer values, for runs of several drawdown episodes
DDLongLen == 5
DDLongCells == {Pct(-5), Pct(0), Pct(10)}

\* the symbols of the portfolio files and the prices and weights offered
Symbols == {"A", "B"}
PriceCells == {NaN, Pct(100), Pct(200)}
WeightCells == {Norm(50, 100), Norm(60, 100)}

EmptyFrame == [cols |-> {}, n |-> 0, col |-> [c \in {} |-> <<>>]]

Frames ==
    {EmptyFrame} \cup
    UNION {UNION {{[cols |-> C, n |-> n, col |-> f] : f \in [C -> [1..n -> PriceCells]]}
                  : n \in 1..MaxRows}
           : C \in (SUBSET Symbols) \ {{}}}

\* the tables of few rows, for properties of every step of an aggregation
AggSmallRows == 2
SmallFrames == {f \in Frames : f.n <= AggSmallRows}

WeightMaps == UNION {[K -> WeightCells] : K \in SUBSET Symbols}

NoOutput == [metrics |-> EmptyBundle, ui |-> {}]

NoAggregation ==
    [shown |-> FALSE, returns |-> <<>>, index |-> {}, applied |-> NoWeights,
     metrics |-> EmptyBundle, ui |-> {}]

AggIdle ==
    /\ stock_data = EmptyFrame
    /\ weights = NoWeights
    /\ fill_pad = FALSE
    /\ agg_out = NoAggregation

MetricsIdle ==
    /\ returns = [none |-> TRUE, vals |-> <<>>]
    /\ fault = "none"
    /\ safe_out = NoOutput
    /\ perf_out = EmptyBundle
    /\ done = {}

DDIdle ==
    /\ dd_returns = <<>>
    /\ dd_i = 0
    /\ dd_start = <<>>
    /\ dd_periods = <<>>
    /\ dd_pc = "returned"

\* the bundle fields the comparison reads, as the metrics functions produce
\* them: a Sharpe ratio (NaN on a NaN volatility), a drawdown <= 0, a win
\* rate in [0, 1], an annualized return
ScoreSharpes == {NaN, Zero, Num(Norm(3, 8)), Num(Norm(3, 4))}
ScoreDrawdowns == {Zero, Num(Norm(-1, 4)), Num(Norm(-1, 2))}
ScoreWinRates == {Zero, Num(Norm(1, 2)), Num(ROne)}
ScoreReturns == {Zero, Num(Norm(1, 10))}

ScoreBundles ==
    [sharpe : ScoreSharpes, max_drawdown : ScoreDrawdowns,
     win_rate : ScoreWinRates, annual_return : ScoreReturns]

NoBundle ==
    [sharpe |-> NaN, max_drawdown |-> NaN, win_rate |-> NaN, annual_return |-> NaN]

NoScore == [gr_score |-> NaN, lr_score |-> NaN, recommended |-> "none"]

ScoreIdle ==
    /\ gr_metrics = NoBundle
    /\ lr_metrics = NoBundle
    /\ score_out = NoScore

\* the bundles offered to the diagnosis: annualized return, Sharpe ratio, win
\* rate and max drawdown of a strategy over one period; {} is a bundle
\* without any field, FlatBundle the bundle of a series of zero returns
DiagBundle(ret, sharpe, win, dd) ==
    [annual_return |-> ret, sharpe |-> sharpe, win_rate |-> win, max_drawdown |-> dd]

FlatBundle == DiagBundle(Zero, Zero, Zero, Zero)

DiagBundles ==
    { EmptyBundle,
      FlatBundle,
      DiagBundle(Pct(20), Pct(100), Pct(60), Pct(-10)),
      DiagBundle(Pct(18), Pct(100), Pct(60), Pct(-10)),
      DiagBundle(Pct(20), Pct(100), Pct(60), Pct(-20)),
      DiagBundle(Pct(20), Pct(50), Pct(60), Pct(-10)),
      DiagBundle(Pct(20), Pct(50), Pct(60), Pct(-20)),
      DiagBundle(Pct(20), NaN, Pct(100), Zero),
      DiagBundle(Pct(-10), Pct(-50), Pct(40), Pct(-30)) }

NoStability == [gr_stability |-> NaN, lr_stability |-> NaN]

DiagIdle ==
    /\ gr_hist = EmptyBundle
    /\ lr_hist = EmptyBundle
    /\ gr_forward = EmptyBundle
    /\ lr_forward = EmptyBundle
    /\ stability_metrics = NoStability
    /\ problems = <<>>

\* the prices offered as the benchmark Series, NaN for a day without a price
BenchMaxLen == 4
BenchmarkPrices == {NaN, Num(<<1, 1>>), Num(<<2, 1>>), Num(<<4, 1>>), Num(<<5, 1>>)}

\* the symbols passed to get_stock_data, in the order of their submission,
\* and the size of the pool, scaled down from max_workers = 3 so that a
\* task has to wait for a free worker
FetchSymbols == <<"A", "B", "C">>
MaxWorkers == 2

SymbolSet == {FetchSymbols[i] : i \in 1..Len(FetchSymbols)}

Price(k) == Num(<<k, 1>>)

\* the price Series of the data source over the same three days, C without
\* a price on the second day
Markets ==
    { [s \in SymbolSet |->
          CASE s = "A" -> <<Price(4), Price(5), Price(4)>>
            [] s = "B" -> <<Price(2), Price(2), Price(1)>>
            [] s = "C" -> <<Price(1), NaN, Price(2)>>] }

\* the weight column of a portfolio file
FetchWeightMaps ==
    { [s \in {"A", "B"} |-> Norm(1, 2)],
      [s \in SymbolSet |-> IF s = "A" THEN Norm(3, 5) ELSE Norm(1, 5)],
      [s \in {"B", "C"} |-> IF s = "B" THEN Norm(3, 10) ELSE Norm(1, 10)] }

\* daily returns offered to the rolling charts
RollCells == {Pct(-2), Pct(0), Pct(1)}

\* daily returns offered to the tail risk analysis, and the low-risk Series
\* offered next to each high-return Series
TailCells == {Pct(-5), Pct(1)}
TailLowRisk == {<<>>, <<Pct(1)>>, <<Pct(-5), Pct(1), Pct(1)>>}

NoChart == <<>>

ChartIdle ==
    /\ gr_returns = <<>>
    /\ lr_returns = <<>>
    /\ chart_out = NoChart

\* no get_stock_data call in this run
NoSymbols == [s \in {} |-> <<>>]

FetchIdle ==
    /\ market = NoSymbols
    /\ calls = NoSymbols
    /\ fetch_pc = NoSymbols
    /\ future = NoSymbols
    /\ yielded = {}
    /\ columns = <<>>
    /\ success_count = 0
    /\ get_pc = "idle"

ExtIdle ==
    /\ np_floats = TRUE
    /\ raised = "none"
    /\ benchmark_data = <<>>
    /\ FetchIdle

(* ------------------------------------------------------------------ *)
(* Metrics: one call of each implementation on the same Series        *)
(* ------------------------------------------------------------------ *)
InitMetrics ==
    /\ mode = "metrics"
    /\ returns \in {[none |-> TRUE, vals |-> <<>>]}
                   \cup {[none |-> FALSE, vals |-> v] : v \in SeqsUpTo(ReturnCells, MaxLen)}
    /\ fault \in Stats \cup {"none"}
    /\ safe_out = NoOutput
    /\ perf_out = EmptyBundle
    /\ done = {}
    /\ DDIdle
    /\ ExtIdle
    /\ AggIdle
    /\ ScoreIdle
    /\ DiagIdle
    /\ ChartIdle

SafeCalculateMetrics ==
    /\ mode = "metrics"
    /\ "safe" \notin done
    /\ safe_out' = safe_calculate_metrics(returns, fault)
    /\ done' = done \cup {"safe"}
    /\ UNCHANGED <<mode, returns, fault, perf_out, ddVars, extVars, aggVars, scoreVars, diagVars, chartVars>>

\* the dashboard and the report module call it on the output of
\* (returns * weights).sum(axis=1) or of pct_change().dropna(): a Series
\* object without missing values
CalculatePerformanceMetrics ==
    /\ mode = "metrics"
    /\ "perf" \notin done
    /\ ~returns.none
    /\ \A i \in 1..Len(returns.vals) : ~IsNaN(returns.vals[i])
    /\ fault = "none"
    /\ perf_out' = calculate_performance_metrics(returns.vals)
    /\ done' = done \cup {"perf"}
    /\ UNCHANGED <<mode, returns, fault, safe_out, ddVars, extVars, aggVars, scoreVars, diagVars, chartVars>>

NextMetrics == SafeCalculateMetrics \/ CalculatePerformanceMetrics

SpecMetrics == InitMetrics /\ [][NextMetrics]_vars

(* ------------------------------------------------------------------ *)
(* Drawdown: the loop of calculate_drawdown_periods, one iteration    *)
(* per step                                                           *)
(* ------------------------------------------------------------------ *)
InitDD ==
    /\ mode = "drawdown"
    /\ dd_returns \in SeqsUpTo(DDReturnCells, DDMaxLen)
    /\ dd_i = 0
    /\ dd_start = <<>>
    /\ dd_periods = <<>>
    /\ dd_pc = "loop"
    /\ MetricsIdle
    /\ ExtIdle
    /\ AggIdle
    /\ ScoreIdle
    /\ DiagIdle
    /\ ChartIdle

\* if is_dd and start is None: start = i
DDOpen ==
    /\ mode = "drawdown" /\ dd_pc = "loop" /\ dd_i < Len(dd_returns)
    /\ InDrawdown(dd_returns, dd_i) /\ dd_start = <<>>
    /\ dd_start' = <<dd_i>>
    /\ dd_i' = dd_i + 1
    /\ UNCHANGED <<mode, dd_returns, dd_periods, dd_pc, metricsVars, extVars, aggVars, scoreVars, diagVars, chartVars>>

\* mutant of DDClose: start is not reset to None after the append
DDCloseKeepingStart ==
    /\ mode = "drawdown" /\ dd_pc = "loop" /\ dd_i < Len(dd_returns)
    /\ ~InDrawdown(dd_returns, dd_i) /\ dd_start # <<>>
    /\ dd_periods' = Append(dd_periods, Episode(dd_returns, dd_start[1], dd_i))
    /\ dd_i' = dd_i + 1
    /\ UNCHANGED <<mode, dd_returns, dd_start, dd_pc, metricsVars, extVars, aggVars, scoreVars, diagVars, chartVars>>

\* elif not is_dd and start is not None: append the episode, start = None
DDClose ==
    /\ mode = "drawdown" /\ dd_pc = "loop" /\ dd_i < Len(dd_returns)
    /\ ~InDrawdown(dd_returns, dd_i) /\ dd_start # <<>>
    /\ dd_periods' = Append(dd_periods, Episode(dd_returns, dd_start[1], dd_i))
    /\ dd_start' = <<>>
    /\ dd_i' = dd_i + 1
    /\ UNCHANGED <<mode, dd_returns, dd_pc, metricsVars, extVars, aggVars, scoreVars, diagVars, chartVars>>

\* neither branch: the drawdown goes on, or there is none
DDSkip ==
    /\ mode = "drawdown" /\ dd_pc = "loop" /\ dd_i < Len(dd_returns)
    /\ InDrawdown(dd_returns, dd_i) <=> (dd_start # <<>>)
    /\ dd_i' = dd_i + 1
    /\ UNCHANGED <<mode, dd_returns, dd_start, dd_periods, dd_pc, metricsVars, extVars, aggVars, scoreVars, diagVars, chartVars>>

\* mutant of DDReturn: a drawdown still open after the last observation
\* is flushed as an episode
DDReturnFlushingOpen ==
    /\ mode = "drawdown" /\ dd_pc = "loop" /\ dd_i = Len(dd_returns)
    /\ dd_pc' = "returned"
    /\ dd_periods' = IF dd_start = <<>> THEN dd_periods
                     ELSE Append(dd_periods, Episode(dd_returns, dd_start[1], dd_i))
    /\ UNCHANGED <<mode, dd_returns, dd_i, dd_start, metricsVars, extVars, aggVars, scoreVars, diagVars, chartVars>>

\* the loop is exhausted: return drawdown_periods
DDReturn ==
    /\ mode = "drawdown" /\ dd_pc = "loop" /\ dd_i = Len(dd_returns)
    /\ dd_pc' = "returned"
    /\ UNCHANGED <<mode, dd_returns, dd_i, dd_start, dd_periods, metricsVars, extVars, aggVars, scoreVars, diagVars, chartVars>>

NextDD == DDOpen \/ DDClose \/ DDSkip \/ DDReturn

SpecDD == InitDD /\ [][NextDD]_vars

\* the same loop on the longer Series
InitDDLong ==
    /\ mode = "drawdown"
    /\ dd_returns \in SeqsUpTo(DDLongCells, DDLongLen)
    /\ dd_i = 0
    /\ dd_start = <<>>
    /\ dd_periods = <<>>
    /\ dd_pc = "loop"
    /\ MetricsIdle
    /\ ExtIdle
    /\ AggIdle
    /\ ScoreIdle
    /\ DiagIdle
    /\ ChartIdle

SpecDDLong == InitDDLong /\ [][NextDD]_vars

(* ------------------------------------------------------------------ *)
(* Aggregation: one call of one of the aggregation paths              *)
(* ------------------------------------------------------------------ *)
InitAgg ==
    /\ mode = "aggregate"
    /\ stock_data \in Frames
    /\ weights \in WeightMaps
    /\ fill_pad \in BOOLEAN
    /\ agg_out = NoAggregation
    /\ returns = [none |-> TRUE, vals |-> <<>>]
    /\ fault = "none"
    /\ safe_out = NoOutput
    /\ perf_out = EmptyBundle
    /\ done = {}
    /\ DDIdle
    /\ ExtIdle
    /\ ScoreIdle
    /\ DiagIdle
    /\ ChartIdle

\* mutant of SafePortfolioCalculation: the normalized and filtered weights
\* are written into the caller's dict
SafePortfolioCalculationInPlace ==
    /\ mode = "aggregate" /\ done = {}
    /\ LET r == safe_portfolio_calculation(stock_data, weights, fill_pad)
       IN  /\ agg_out' = [shown |-> FALSE, returns |-> r.returns, index |-> r.index,
                           applied |-> r.applied, metrics |-> EmptyBundle,
                           ui |-> r.ui]
           /\ weights' = IF Len(r.returns) > 0 THEN r.applied ELSE weights
    /\ done' = {"safe_portfolio_calculation"}
    /\ UNCHANGED <<mode, returns, fault, safe_out, perf_out, ddVars, extVars,
                   stock_data, fill_pad, scoreVars, diagVars, chartVars>>

SafePortfolioCalculation ==
    /\ mode = "aggregate" /\ done = {}
    /\ LET r == safe_portfolio_calculation(stock_data, weights, fill_pad)
       IN  agg_out' = [shown |-> FALSE, returns |-> r.returns, index |-> r.index,
                       applied |-> r.applied, metrics |-> EmptyBundle,
                       ui |-> r.ui]
    /\ done' = {"safe_portfolio_calculation"}
    /\ UNCHANGED <<mode, returns, fault, safe_out, perf_out, ddVars, extVars,
                   stock_data, weights, fill_pad, scoreVars, diagVars, chartVars>>

ShowPerformanceAnalysis ==
    /\ mode = "aggregate" /\ done = {}
    /\ agg_out' = show_performance_analysis(stock_data, weights, fill_pad)
    /\ done' = {"show_performance_analysis"}
    /\ UNCHANGED <<mode, returns, fault, safe_out, perf_out, ddVars, extVars,
                   stock_data, weights, fill_pad, scoreVars, diagVars, chartVars>>

BacktestPortfolios ==
    /\ mode = "aggregate" /\ done = {}
    /\ agg_out' = backtest_portfolios(stock_data, weights, fill_pad)
    /\ done' = {"backtest_portfolios"}
    /\ UNCHANGED <<mode, returns, fault, safe_out, perf_out, ddVars, extVars,
                   stock_data, weights, fill_pad, scoreVars, diagVars, chartVars>>

NextAgg == SafePortfolioCalculation \/ ShowPerformanceAnalysis \/ BacktestPortfolios

SpecAgg == InitAgg /\ [][NextAgg]_vars

\* the same calls on the tables of few rows
InitAggSmall ==
    /\ mode = "aggregate"
    /\ stock_data \in SmallFrames
    /\ weights \in WeightMaps
    /\ fill_pad \in BOOLEAN
    /\ agg_out = NoAggregation
    /\ returns = [none |-> TRUE, vals |-> <<>>]
    /\ fault = "none"
    /\ safe_out = NoOutput
    /\ perf_out = EmptyBundle
    /\ done = {}
    /\ DDIdle
    /\ ExtIdle
    /\ ScoreIdle
    /\ DiagIdle
    /\ ChartIdle

SpecAggSmall == InitAggSmall /\ [][NextAgg]_vars

(* ------------------------------------------------------------------ *)
(* Scoring: the dashboard or the report module compares two bundles   *)
(* ------------------------------------------------------------------ *)
InitScore ==
    /\ mode = "score"
    /\ gr_metrics \in ScoreBundles
    /\ lr_metrics \in ScoreBundles
    /\ score_out = NoScore
    /\ MetricsIdle
    /\ DDIdle
    /\ ExtIdle
    /\ AggIdle
    /\ DiagIdle
    /\ ChartIdle

ShowComparisonAnalysis ==
    /\ mode = "score" /\ done = {}
    /\ score_out' = show_comparison_analysis(gr_metrics, lr_metrics)
    /\ done' = {"show_comparison_analysis"}
    /\ UNCHANGED <<mode, returns, fault, safe_out, perf_out, ddVars, extVars, aggVars,
                   gr_metrics, lr_metrics, diagVars, chartVars>>

GenerateAnalysisReport ==
    /\ mode = "score" /\ done = {}
    /\ score_out' = generate_analysis_report(gr_metrics, lr_metrics)
    /\ done' = {"generate_analysis_report"}
    /\ UNCHANGED <<mode, returns, fault, safe_out, perf_out, ddVars, extVars, aggVars,
                   gr_metrics, lr_metrics, diagVars, chartVars>>

NextScore == ShowComparisonAnalysis \/ GenerateAnalysisReport

SpecScore == InitScore /\ [][NextScore]_vars

(* ------------------------------------------------------------------ *)
(* Diagnosis: analyze_gpt_portfolio_issues computes the stability of  *)
(* the two strategies and then diagnoses the four bundles             *)
(* ------------------------------------------------------------------ *)
InitDiag ==
    /\ mode = "diagnosis"
    /\ gr_hist \in DiagBundles
    /\ lr_hist \in DiagBundles
    /\ gr_forward \in DiagBundles
    /\ lr_forward \in DiagBundles
    /\ stability_metrics = NoStability
    /\ problems = <<>>
    /\ np_floats \in BOOLEAN
    /\ raised = "none"
    /\ benchmark_data = <<>>
    /\ FetchIdle
    /\ MetricsIdle
    /\ DDIdle
    /\ AggIdle
    /\ ScoreIdle
    /\ ChartIdle

CalculateStabilityMetrics ==
    /\ mode = "diagnosis" /\ done = {}
    /\ stability_metrics' =
          calculate_stability_metrics(gr_hist, lr_hist, gr_forward, lr_forward)
    /\ done' = {"calculate_stability_metrics"}
    /\ UNCHANGED <<mode, returns, fault, safe_out, perf_out, ddVars, extVars, aggVars,
                   scoreVars, gr_hist, lr_hist, gr_forward, lr_forward, problems,
                   chartVars>>

\* diagnose_problems returns its list, or an exception raised inside a
\* description leaves it (done then records "raised" instead of the return)
DiagnoseProblems ==
    /\ mode = "diagnosis" /\ done = {"calculate_stability_metrics"}
    /\ LET error == DescriptionError(np_floats, gr_hist, lr_hist, gr_forward, lr_forward)
       IN  IF error = "none"
           THEN /\ problems' = diagnose_problems(stability_metrics,
                                     gr_hist, lr_hist, gr_forward, lr_forward)
                /\ done' = done \cup {"diagnose_problems"}
                /\ raised' = raised
           ELSE /\ problems' = problems
                /\ done' = done \cup {"raised"}
                /\ raised' = error
    /\ UNCHANGED <<mode, returns, fault, safe_out, perf_out, ddVars, aggVars,
                   scoreVars, gr_hist, lr_hist, gr_forward, lr_forward,
                   stability_metrics, chartVars, np_floats, benchmark_data,
                   fetchVars>>

NextDiag == CalculateStabilityMetrics \/ DiagnoseProblems

SpecDiag == InitDiag /\ [][NextDiag]_vars

(* ------------------------------------------------------------------ *)
(* Rolling charts: the two strategies' return Series over the same    *)
(* dates go to one of the two functions that plot rolling statistics  *)
(* ------------------------------------------------------------------ *)
InitRolling ==
    /\ mode = "rolling"
    /\ gr_returns \in SeqsUpTo(RollCells, RollMaxLen)
    /\ lr_returns \in [1..Len(gr_returns) -> RollCells]
    /\ chart_out = NoChart
    /\ MetricsIdle
    /\ DDIdle
    /\ ExtIdle
    /\ AggIdle
    /\ ScoreIdle
    /\ DiagIdle

CreateRollingMetricsChart ==
    /\ mode = "rolling" /\ done = {}
    /\ chart_out' = create_rolling_metrics_chart(gr_returns, lr_returns, RollingWindow)
    /\ done' = {"create_rolling_metrics_chart"}
    /\ UNCHANGED <<mode, returns, fault, safe_out, perf_out, ddVars, extVars, aggVars,
                   scoreVars, diagVars, gr_returns, lr_returns>>

ShowRiskAnalysis ==
    /\ mode = "rolling" /\ done = {}
    /\ chart_out' = show_risk_analysis(gr_returns, lr_returns, VolWindow)
    /\ done' = {"show_risk_analysis"}
    /\ UNCHANGED <<mode, returns, fault, safe_out, perf_out, ddVars, extVars, aggVars,
                   scoreVars, diagVars, gr_returns, lr_returns>>

NextRolling == CreateRollingMetricsChart \/ ShowRiskAnalysis

SpecRolling == InitRolling /\ [][NextRolling]_vars

(* ------------------------------------------------------------------ *)
(* Tail risk: create_tail_risk_analysis on two return Series          *)
(* ------------------------------------------------------------------ *)
InitTail ==
    /\ mode = "tail"
    /\ gr_returns \in SeqsUpTo(TailCells, TailMaxLen)
    /\ lr_returns \in TailLowRisk
    /\ chart_out = NoChart
    /\ MetricsIdle
    /\ DDIdle
    /\ ExtIdle
    /\ AggIdle
    /\ ScoreIdle
    /\ DiagIdle

CreateTailRiskAnalysis ==
    /\ mode = "tail" /\ done = {}
    /\ chart_out' = create_tail_risk_analysis(gr_returns, lr_returns)
    /\ done' = {"create_tail_risk_analysis"}
    /\ UNCHANGED <<mode, returns, fault, safe_out, perf_out, ddVars, extVars, aggVars,
                   scoreVars, diagVars, gr_returns, lr_returns>>

NextTail == CreateTailRiskAnalysis

SpecTail == InitTail /\ [][NextTail]_vars

(* ------------------------------------------------------------------ *)
(* Benchmark: one price Series goes from prices to returns to the     *)
(* metrics bundle, in the dashboard and through safe_calculate_metrics *)
(* ------------------------------------------------------------------ *)
InitBenchmark ==
    /\ mode = "benchmark"
    /\ benchmark_data \in SeqsUpTo(BenchmarkPrices, BenchMaxLen)
    /\ fill_pad \in BOOLEAN
    /\ stock_data = EmptyFrame
    /\ weights = NoWeights
    /\ agg_out = NoAggregation
    /\ np_floats = TRUE
    /\ raised = "none"
    /\ FetchIdle
    /\ MetricsIdle
    /\ DDIdle
    /\ ScoreIdle
    /\ DiagIdle
    /\ ChartIdle

\* show_performance_analysis, lines 597 and 602
ShowBenchmark ==
    /\ mode = "benchmark" /\ done = {}
    /\ LET benchmark_returns == BenchmarkReturns(benchmark_data, fill_pad)
       IN  /\ returns' = [none |-> FALSE, vals |-> benchmark_returns]
           /\ perf_out' = BenchmarkMetrics(benchmark_returns)
    /\ done' = {"perf"}
    /\ UNCHANGED <<mode, fault, safe_out, ddVars, extVars, aggVars, scoreVars,
                   diagVars, chartVars>>

\* safe_calculate_metrics on the same returns
SafeBenchmarkMetrics ==
    /\ mode = "benchmark" /\ done = {"perf"}
    /\ safe_out' = safe_calculate_metrics(returns, fault)
    /\ done' = done \cup {"safe"}
    /\ UNCHANGED <<mode, returns, fault, perf_out, ddVars, extVars, aggVars,
                   scoreVars, diagVars, chartVars>>

NextBenchmark == ShowBenchmark \/ SafeBenchmarkMetrics

SpecBenchmark == InitBenchmark /\ [][NextBenchmark]_vars

(* ------------------------------------------------------------------ *)
(* Fetch: get_stock_data runs one fetch_single_stock task per symbol  *)
(* on the pool while its main loop collects the finished futures;     *)
(* show_performance_analysis then aggregates the table it returned.   *)
(* The progress bar and the status texts are not modelled.            *)
(* ------------------------------------------------------------------ *)
InitFetch ==
    /\ mode = "fetch"
    /\ market \in Markets
    /\ calls = [s \in SymbolSet |-> <<>>]
    /\ fetch_pc = [s \in SymbolSet |-> "queued"]
    /\ future = [s \in SymbolSet |-> NoneData]
    /\ yielded = {}
    /\ columns = <<>>
    /\ success_count = 0
    /\ get_pc = "pool"
    /\ stock_data = EmptyFrame
    /\ weights \in FetchWeightMaps
    /\ fill_pad \in BOOLEAN
    /\ agg_out = NoAggregation
    /\ np_floats = TRUE
    /\ raised = "none"
    /\ benchmark_data = <<>>
    /\ MetricsIdle
    /\ DDIdle
    /\ ScoreIdle
    /\ DiagIdle
    /\ ChartIdle

\* the tasks a worker thread is running
Running == {s \in SymbolSet : fetch_pc[s] \in {"running", "sleeping"}}

\* the position of a symbol in the list passed in
Position(s) == CHOOSE i \in 1..Len(FetchSymbols) : FetchSymbols[i] = s

\* a free worker takes the next task of the queue, in submission order
StartFetch(s) ==
    /\ mode = "fetch" /\ fetch_pc[s] = "queued"
    /\ Cardinality(Running) < MaxWorkers
    /\ \A t \in SymbolSet : fetch_pc[t] = "queued" => Position(s) <= Position(t)
    /\ fetch_pc' = [fetch_pc EXCEPT ![s] = "running"]
    /\ UNCHANGED <<mode, metricsVars, ddVars, aggVars, scoreVars, diagVars, chartVars,
                   np_floats, raised, benchmark_data,
                   market, calls, future, yielded, columns, success_count, get_pc>>

\* attempt 0 of fetch_single_stock: the yf.download call comes back
Download(s) ==
    /\ mode = "fetch" /\ fetch_pc[s] = "running"
    /\ \E outcome \in Outcomes :
          LET after == AfterDownload(0, outcome, market[s])
          IN  /\ calls' = [calls EXCEPT ![s] = Append(@, outcome)]
              /\ fetch_pc' = [fetch_pc EXCEPT ![s] = after.pc]
              /\ future' = [future EXCEPT ![s] = after.data]
    /\ UNCHANGED <<mode, metricsVars, ddVars, aggVars, scoreVars, diagVars, chartVars,
                   np_floats, raised, benchmark_data,
                   market, yielded, columns, success_count, get_pc>>

\* attempt 1, after time.sleep(1): the second yf.download call comes back;
\* an exception is re-raised and caught by the outer except
Retry(s) ==
    /\ mode = "fetch" /\ fetch_pc[s] = "sleeping"
    /\ \E outcome \in Outcomes :
          LET after == AfterDownload(1, outcome, market[s])
          IN  /\ calls' = [calls EXCEPT ![s] = Append(@, outcome)]
              /\ fetch_pc' = [fetch_pc EXCEPT ![s] = after.pc]
              /\ future' = [future EXCEPT ![s] = after.data]
    /\ UNCHANGED <<mode, metricsVars, ddVars, aggVars, scoreVars, diagVars, chartVars,
                   np_floats, raised, benchmark_data,
                   market, yielded, columns, success_count, get_pc>>

\* mutant of Collect: success_count counts every finished future
CollectCountingAll(s) ==
    /\ mode = "fetch" /\ get_pc = "pool"
    /\ fetch_pc[s] = "returned" /\ s \notin yielded
    /\ IF future[s] # NoneData
       THEN /\ stock_data' = AddColumn(stock_data, s, future[s])
            /\ columns' = Append(columns, s)
       ELSE UNCHANGED <<stock_data, columns>>
    /\ success_count' = success_count + 1
    /\ yielded' = yielded \cup {s}
    /\ UNCHANGED <<mode, metricsVars, ddVars, weights, fill_pad, agg_out,
                   scoreVars, diagVars, chartVars,
                   np_floats, raised, benchmark_data,
                   market, calls, fetch_pc, future, get_pc>>

\* mutant of Collect: the data is stored under the symbol at the loop's
\* position i in the list passed in
CollectByPosition(s) ==
    /\ mode = "fetch" /\ get_pc = "pool"
    /\ fetch_pc[s] = "returned" /\ s \notin yielded
    /\ IF future[s] # NoneData
       THEN /\ stock_data' = AddColumn(stock_data,
                                       FetchSymbols[Cardinality(yielded) + 1], future[s])
            /\ columns' = Append(columns, FetchSymbols[Cardinality(yielded) + 1])
            /\ success_count' = success_count + 1
       ELSE UNCHANGED <<stock_data, columns, success_count>>
    /\ yielded' = yielded \cup {s}
    /\ UNCHANGED <<mode, metricsVars, ddVars, weights, fill_pad, agg_out,
                   scoreVars, diagVars, chartVars,
                   np_floats, raised, benchmark_data,
                   market, calls, fetch_pc, future, get_pc>>

\* one iteration of the loop over as_completed(future_to_symbol): a finished
\* future not yet yielded, whichever it is
Collect(s) ==
    /\ mode = "fetch" /\ get_pc = "pool"
    /\ fetch_pc[s] = "returned" /\ s \notin yielded
    /\ IF future[s] # NoneData
       THEN /\ stock_data' = AddColumn(stock_data, s, future[s])
            /\ columns' = Append(columns, s)
            /\ success_count' = success_count + 1
       ELSE UNCHANGED <<stock_data, columns, success_count>>
    /\ yielded' = yielded \cup {s}
    /\ UNCHANGED <<mode, metricsVars, ddVars, weights, fill_pad, agg_out,
                   scoreVars, diagVars, chartVars,
                   np_floats, raised, benchmark_data,
                   market, calls, fetch_pc, future, get_pc>>

\* every future was yielded: the pool shuts down and
\* pd.DataFrame(stock_data) is returned
GetStockDataReturn ==
    /\ mode = "fetch" /\ get_pc = "pool"
    /\ yielded = SymbolSet
    /\ get_pc' = "returned"
    /\ UNCHANGED <<mode, metricsVars, ddVars, aggVars, scoreVars, diagVars, chartVars,
                   np_floats, raised, benchmark_data,
                   market, calls, fetch_pc, future, yielded, columns, success_count>>

\* show_performance_analysis on the table returned
AnalyzeFetched ==
    /\ mode = "fetch" /\ get_pc = "returned"
    /\ agg_out' = show_performance_analysis(stock_data, weights, fill_pad)
    /\ get_pc' = "analyzed"
    /\ UNCHANGED <<mode, metricsVars, ddVars, stock_data, weights, fill_pad,
                   scoreVars, diagVars, chartVars,
                   np_floats, raised, benchmark_data,
                   market, calls, fetch_pc, future, yielded, columns, success_count>>

NextFetch ==
    \/ \E s \in SymbolSet : StartFetch(s) \/ Download(s) \/ Retry(s) \/ Collect(s)
    \/ GetStockDataReturn
    \/ AnalyzeFetched

SpecFetch == InitFetch /\ [][NextFetch]_vars

(* ------------------------------------------------------------------ *)
(* The whole model                                                    *)
(* ------------------------------------------------------------------ *)
Init == InitMetrics \/ InitDD \/ InitDDLong \/ InitAgg \/ InitScore \/ InitDiag
        \/ InitRolling \/ InitTail \/ InitBenchmark \/ InitFetch

Next == NextMetrics \/ NextDD \/ NextAgg \/ NextScore \/ NextDiag
        \/ NextRolling \/ NextTail \/ NextBenchmark \/ NextFetch

Spec == Init /\ [][Next]_vars

(* ------------------------------------------------------------------ *)
(* Claims about calculate_drawdown_periods (checked under SpecDD)     *)
(* ------------------------------------------------------------------ *)
DDLast == Len(dd_returns) - 1

\* the indices i at which the drawdown curve goes from < 0 back to >= 0
Recoveries ==
    {i \in 1..DDLast : InDrawdown(dd_returns, i - 1) /\ ~InDrawdown(dd_returns, i)}

\* the first index of the run of negative drawdown that ends before index e
RunStart(e) ==
    CHOOSE j \in 0..(e - 1) :
        /\ \A u \in j..(e - 1) : InDrawdown(dd_returns, u)
        /\ j = 0 \/ ~InDrawdown(dd_returns, j - 1)

\* C1: calculate_drawdown_periods emits only closed episodes.  Every episode
\* in drawdown_periods ends at an index of the series where the drawdown is
\* >= 0, and when the loop has returned with a drawdown still open at the
\* last observation, no episode reaches into that open run.
C1_OnlyClosedEpisodes ==
    mode = "drawdown" =>
        /\ \A k \in 1..Len(dd_periods) :
              /\ dd_periods[k].end \in 0..DDLast
              /\ ~InDrawdown(dd_returns, dd_periods[k].end)
        /\ (dd_pc = "returned" /\ DDLast >= 0 /\ InDrawdown(dd_returns, DDLast)) =>
              /\ dd_start # <<>>
              /\ \A k \in 1..Len(dd_periods) : dd_periods[k].end < dd_start[1]

\* C1 witness: the loop returned with one closed episode emitted and a later
\* drawdown still open at the last observation
C1_Witness ==
    /\ mode = "drawdown" /\ dd_pc = "returned"
    /\ Len(dd_periods) = 1
    /\ dd_start # <<>>
    /\ InDrawdown(dd_returns, DDLast)

ExampleReturns == <<Pct(1), Pct(-5), Pct(-2), Pct(10)>>

\* C2: when the loop has returned, drawdown_periods holds exactly one episode
\* per recovery (a step from drawdown < 0 to drawdown >= 0), in chronological
\* order; its end is the recovery index, its start the first index of the
\* negative run, its duration end - start and its depth the least drawdown
\* over start..end-1.  [0.01, -0.05, -0.02, 0.10] gives one episode with
\* start 1, end 3, duration 2.
C2_OneEpisodePerRecovery ==
    (mode = "drawdown" /\ dd_pc = "returned") =>
        /\ Len(dd_periods) = Cardinality(Recoveries)
        /\ \A k \in 1..Len(dd_periods) :
              LET e == dd_periods[k] IN
              /\ e.end \in Recoveries
              /\ e.start = RunStart(e.end)
              /\ e.duration = e.end - e.start
              /\ \E u \in e.start..(e.end - 1) :
                    e.depth = Num(DrawdownAt(dd_returns, u + 1))
              /\ \A u \in e.start..(e.end - 1) :
                    RLeq(e.depth.a, DrawdownAt(dd_returns, u + 1))
              /\ k > 1 => dd_periods[k - 1].end < e.end
        /\ dd_returns = ExampleReturns =>
              /\ Len(dd_periods) = 1
              /\ dd_periods[1].start = 1 /\ dd_periods[1].end = 3
              /\ dd_periods[1].duration = 2
              /\ dd_periods[1].depth = Num(<<-69, 1000>>)

\* C2 witness: the loop has returned on the example series with its episode
C2_Witness ==
    /\ mode = "drawdown" /\ dd_pc = "returned"
    /\ dd_returns = ExampleReturns
    /\ Len(dd_periods) = 1 /\ dd_periods[1].duration = 2

(* ------------------------------------------------------------------ *)
(* Claims about aggregation (checked under SpecAgg)                   *)
(* ------------------------------------------------------------------ *)
\* the symbols of the weight map that have a column of prices
AvailableSymbols == (DOMAIN weights) \cap stock_data.cols

Aggregated == mode = "aggregate" /\ done # {}

\* C3: whenever returns were aggregated for a weight map whose available
\* symbols have a positive weight total, the weights multiplied into the
\* returns are those of the available symbols, each its original weight
\* divided by the total of the available symbols' weights, and they sum to 1.
C3_AppliedWeightsSumToOne ==
    (Aggregated /\ Len(agg_out.returns) > 0 /\ AvailableSymbols # {}) =>
        /\ DOMAIN agg_out.applied = AvailableSymbols
        /\ \A k \in AvailableSymbols :
              agg_out.applied[k] =
                  RDiv(weights[k], SumWeights(weights, AvailableSymbols))
        /\ WeightTotal(agg_out.applied) = ROne

\* C4: when the weight map names symbols and none of them has price data,
\* aggregation returns an empty result: no portfolio return values and no
\* metrics bundle computed from them.
C4_NoUsableWeightsFails ==
    (Aggregated /\ DOMAIN weights # {} /\ AvailableSymbols = {}) =>
        /\ agg_out.returns = <<>>
        /\ DOMAIN agg_out.metrics = {}

\* C5: whenever returns were aggregated with weights that differ from the
\* weights supplied (renormalized, or symbols dropped), a warning was shown.
C5_RenormalizationReported ==
    (Aggregated /\ Len(agg_out.returns) > 0 /\ AvailableSymbols # {}
        /\ agg_out.applied # weights) =>
        agg_out.ui \cap {"warning_weights_normalized", "warning_missing_stocks"} # {}

(* ------------------------------------------------------------------ *)
(* Claims about the metrics bundle (checked under SpecMetrics)        *)
(* ------------------------------------------------------------------ *)
\* None, zero length, or all values missing
NoData == returns.none \/ DropNa(returns.vals) = <<>>

Clean == DropNa(returns.vals)

SafeDone == mode = "metrics" /\ "safe" \in done
PerfDone == mode = "metrics" /\ "perf" \in done

\* C6: the metrics computation returns the empty bundle exactly when the
\* series holds no data: {} on None, zero length or all values missing, and
\* a non-empty bundle on a series with a non-missing return; in both
\* implementations, and in the dashboard's call on the aggregated returns.
C6_EmptyBundleIffNoData ==
    /\ SafeDone => ((DOMAIN safe_out.metrics = {}) <=> NoData)
    /\ PerfDone => ((DOMAIN perf_out = {}) <=> NoData)
    /\ (Aggregated /\ agg_out.shown) =>
          ((DOMAIN agg_out.metrics = {}) <=> (agg_out.returns = <<>>))

\* C7: in both implementations, a bundle whose annualized volatility is 0
\* has Sharpe = 0 exactly (not NaN, not infinite).
C7_ZeroVolatilityZeroSharpe ==
    /\ (SafeDone /\ ~NoData /\ safe_out.metrics["annual_volatility"] = Zero)
          => safe_out.metrics["sharpe"] = Zero
    /\ (PerfDone /\ ~NoData /\ perf_out["annual_volatility"] = Zero)
          => perf_out["sharpe"] = Zero

\* C7 witness: both implementations ran on a series of two or more equal,
\* nonzero returns: the volatility is 0, the annualized return is not, and
\* the Sharpe ratio is 0
C7_Witness ==
    /\ SafeDone /\ PerfDone /\ fault = "none"
    /\ Len(Clean) >= 2
    /\ \A i \in 1..Len(Clean) : Clean[i] = Clean[1]
    /\ safe_out.metrics["annual_return"] # Zero
    /\ safe_out.metrics["annual_volatility"] = Zero
    /\ safe_out.metrics["sharpe"] = Zero
    /\ perf_out["sharpe"] = Zero

\* C8: when no exception is raised, a series with data and without a negative
\* return gets Sortino = annualized return * 10, in both implementations.
C8_SortinoSentinel ==
    (mode = "metrics" /\ fault = "none" /\ ~NoData /\ Downside(Clean) = <<>>) =>
        /\ "safe" \in done =>
              safe_out.metrics["sortino"] = Times10(safe_out.metrics["annual_return"])
        /\ "perf" \in done =>
              perf_out["sortino"] = Times10(perf_out["annual_return"])

\* C9: on every series with at least one non-missing value (and with no
\* exception raised), safe_calculate_metrics returns all eight fields and
\* each is a defined number (not NaN, not infinite).
C9_AllFieldsDefined ==
    (SafeDone /\ ~NoData /\ fault = "none") =>
        /\ DOMAIN safe_out.metrics = Stats
        /\ \A st \in Stats : IsDefined(safe_out.metrics[st])

DerivedFrom(st) ==
    CASE st = "annual_return" -> {"sharpe", "sortino"}
      [] st = "annual_volatility" -> {"sharpe"}
      [] OTHER -> {}

ScoreDone == mode = "score" /\ done # {}

ScoreTie ==
    /\ IsNum(score_out.gr_score) /\ IsNum(score_out.lr_score)
    /\ score_out.gr_score = score_out.lr_score

GrShallower == FLess(FAbs(gr_metrics.max_drawdown), FAbs(lr_metrics.max_drawdown))
LrShallower == FLess(FAbs(lr_metrics.max_drawdown), FAbs(gr_metrics.max_drawdown))

\* C11: when the two composite scores are equal, the recommended strategy is
\* the one with the higher Sharpe ratio and, the Sharpe ratios being equal
\* too, the one with the smaller |max drawdown|, whichever is passed first.
C11_TieBrokenBySharpeThenDrawdown ==
    (ScoreDone /\ ScoreTie) =>
        /\ FGreater(gr_metrics.sharpe, lr_metrics.sharpe)
              => score_out.recommended = "high_return"
        /\ FGreater(lr_metrics.sharpe, gr_metrics.sharpe)
              => score_out.recommended = "low_risk"
        /\ (gr_metrics.sharpe = lr_metrics.sharpe /\ GrShallower)
              => score_out.recommended = "high_return"
        /\ (gr_metrics.sharpe = lr_metrics.sharpe /\ LrShallower)
              => score_out.recommended = "low_risk"

SameSharpe == IsNum(gr_metrics.sharpe) /\ gr_metrics.sharpe = lr_metrics.sharpe

WeightedScore(m) ==
    FAdd(FAdd(FMul(SCORE_WEIGHTS.sharpe_ratio, m.sharpe),
              FMul(SCORE_WEIGHTS.max_drawdown,
                   FSub(Num(ROne), FAbs(m.max_drawdown)))),
         FMul(SCORE_WEIGHTS.win_rate, m.win_rate))

\* C13: the composite score is 0.4 * Sharpe + 0.3 * (1 - |max drawdown|)
\* + 0.3 * win rate, in the dashboard and in the report module alike, and so
\* a function of these three fields of the bundle only.
C13_CompositeScoreFormula ==
    ScoreDone =>
        /\ score_out.gr_score = WeightedScore(gr_metrics)
        /\ score_out.lr_score = WeightedScore(lr_metrics)

C13_Witness ==
    /\ ScoreDone
    /\ IsNum(score_out.gr_score) /\ IsNum(score_out.lr_score)
    /\ score_out.gr_score # score_out.lr_score
    /\ gr_metrics.annual_return # lr_metrics.annual_return
    /\ gr_metrics.sharpe # Zero /\ gr_metrics.max_drawdown # Zero
    /\ gr_metrics.win_rate # Zero

(* ------------------------------------------------------------------ *)
(* Claims about gpt_analysis (checked under SpecDiag)                 *)
(* ------------------------------------------------------------------ *)
StabilityDone == mode = "diagnosis" /\ "calculate_stability_metrics" \in done
DiagnosisDone == mode = "diagnosis" /\ "diagnose_problems" \in done

\* max(0, min(h, f) / max(|h|, |f|, 0.001)), without a case distinction
ClampedRatio(h, f) ==
    PyMax(Zero,
          FloatDiv(PyMin(h, f),
                   PyMax(PyMax(FAbs(h), FAbs(f)), Num(Norm(1, 1000)))))

\* the mean of the clamped ratio over annualized return, Sharpe and win rate
MeanClampedRatio(hist, forward) ==
    FMul(FAdd(FAdd(ClampedRatio(Get(hist, "annual_return"), Get(forward, "annual_return")),
                   ClampedRatio(Get(hist, "sharpe"), Get(forward, "sharpe"))),
              ClampedRatio(Get(hist, "win_rate"), Get(forward, "win_rate"))),
         Num(Norm(1, 3)))

\* C14: the stability score of a strategy is the mean over annualized
\* return, Sharpe ratio and win rate of max(0, min(h, f) / max(|h|, |f|,
\* 0.001)), a missing field counting as 0, also where h is 0 or both are 0.
C14_StabilityIsMeanClampedRatio ==
    StabilityDone =>
        /\ stability_metrics.gr_stability = MeanClampedRatio(gr_hist, gr_forward)
        /\ stability_metrics.lr_stability = MeanClampedRatio(lr_hist, lr_forward)

C14_Witness ==
    /\ StabilityDone
    /\ gr_hist = FlatBundle
    /\ FLess(Get(gr_forward, "annual_return"), Zero)
    /\ lr_hist = EmptyBundle /\ lr_forward = EmptyBundle
    /\ stability_metrics.gr_stability = Zero
    /\ stability_metrics.lr_stability = Zero

Titles == {problems[i] : i \in 1..Len(problems)}

\* C15: diagnose_problems never returns an empty list: one entry for each
\* of the four flags that fires, and the single entry "stable" exactly when
\* none of them fires.
C15_NeverSilent ==
    DiagnosisDone =>
        /\ problems # <<>>
        /\ Cardinality(Titles) = Len(problems)
        /\ "overfitting" \in Titles <=> Overfitting(stability_metrics)
        /\ "risk_underestimation" \in Titles
              <=> RiskUnderestimated(gr_hist, lr_hist, gr_forward, lr_forward)
        /\ "adaptability" \in Titles
              <=> PoorAdaptability(gr_hist, lr_hist, gr_forward, lr_forward)
        /\ "differentiation" \in Titles
              <=> ReducedDifferentiation(gr_hist, lr_hist, gr_forward, lr_forward)
        /\ "stable" \in Titles <=> problems = <<"stable">>
        /\ "stable" \in Titles
              <=> Titles \cap {"overfitting", "risk_underestimation",
                               "adaptability", "differentiation"} = {}

C15_Witness ==
    /\ DiagnosisDone
    /\ problems = <<"risk_underestimation", "differentiation">>
    /\ FlatBundle \notin {gr_hist, lr_hist, gr_forward, lr_forward}

(* ------------------------------------------------------------------ *)
(* Claims about the rolling charts (checked under SpecRolling)        *)
(* ------------------------------------------------------------------ *)
RollingDone == mode = "rolling" /\ done # {}

\* the window of the function that has run
WindowUsed ==
    IF done = {"show_risk_analysis"} THEN VolWindow ELSE RollingWindow

\* C16: for return Series longer than the window, every rolling output has
\* exactly window - 1 leading missing values: positions 0 .. window - 2 are
\* missing and position window - 1 holds a defined value.
C16_ExactlyWindowMinusOneMissing ==
    (RollingDone /\ Len(gr_returns) > WindowUsed) =>
        \A name \in DOMAIN chart_out :
            /\ \A t \in 1..(WindowUsed - 1) : IsNaN(chart_out[name][t])
            /\ IsDefined(chart_out[name][WindowUsed])

(* ------------------------------------------------------------------ *)
(* Claims about the tail risk analysis (checked under SpecTail)       *)
(* ------------------------------------------------------------------ *)
TailDone == mode = "tail" /\ done # {}

\* v[1..4] are the VaR at 90%, 95%, 99%, 99.5%
Ordered(v) ==
    /\ ~FLess(v[3], v[4])
    /\ ~FLess(v[2], v[3])
    /\ ~FLess(v[1], v[2])
    /\ \A i \in 1..4 : IsNum(v[i])

\* C17: on a non-empty return Series the VaR values are ordered:
\* VaR(99.5%) <= VaR(99%) <= VaR(95%) <= VaR(90%).
C17_VarOrdered ==
    TailDone =>
        /\ gr_returns # <<>> => Ordered(chart_out.gr_vars)
        /\ lr_returns # <<>> => Ordered(chart_out.lr_vars)

C17_Witness ==
    /\ TailDone
    /\ Len(gr_returns) = TailMaxLen
    /\ FLess(chart_out.gr_vars[4], chart_out.gr_vars[3])
    /\ FLess(chart_out.gr_vars[3], chart_out.gr_vars[2])
    /\ FLess(chart_out.gr_vars[2], chart_out.gr_vars[1])

(* ------------------------------------------------------------------ *)
(* Claims about return building and alignment (checked under SpecAgg) *)
(* ------------------------------------------------------------------ *)
\* the return of symbol c at row t, as pct_change() computes it
ReturnOf(c, t) == PctChange(stock_data, fill_pad).col[c][t]

\* the rows at which every constituent of the portfolio has a return
RowsOfAllConstituents ==
    {t \in 1..stock_data.n : \A c \in AvailableSymbols : ~IsNaN(ReturnOf(c, t))}

\* C18: the portfolio return Series has a value at row t exactly when every
\* constituent (every symbol that carries weight and has a column) has a
\* return at t; a missing value in another column removes no row.
C18_InnerJoinOverConstituents ==
    (Aggregated /\ AvailableSymbols # {}) =>
        /\ agg_out.index = RowsOfAllConstituents
        /\ Len(agg_out.returns) = Cardinality(agg_out.index)

GapFree ==
    \A c \in stock_data.cols : \A t \in 1..stock_data.n : ~IsNaN(stock_data.col[c][t])

\* C19: from a gap-free price table of n rows the portfolio gets exactly
\* max(n - 1, 0) returns, and from fewer than 2 rows the aggregation result
\* is empty, not a Series of zeros.
C19_GapFreeYieldsNMinusOne ==
    (Aggregated /\ GapFree /\ DOMAIN weights # {}) =>
        /\ AvailableSymbols # {} =>
              Len(agg_out.returns) = IF stock_data.n > 0 THEN stock_data.n - 1 ELSE 0
        /\ stock_data.n < 2 => agg_out.returns = <<>>

\* C20: a missing price of a constituent at row t gives no portfolio return
\* at t (no zero return from a price carried forward), and none at t + 1
\* either (no return computed against the price before the gap).
C20_GapGivesMissingReturn ==
    (Aggregated /\ AvailableSymbols # {}) =>
        \A c \in AvailableSymbols : \A t \in 1..stock_data.n :
            IsNaN(stock_data.col[c][t]) =>
                /\ t \notin agg_out.index
                /\ (t + 1) \notin agg_out.index

(* ------------------------------------------------------------------ *)
(* The two metrics implementations compared (checked under SpecMetrics) *)
(* ------------------------------------------------------------------ *)
\* C27: on every non-empty return Series without missing values (and with
\* no exception raised), safe_calculate_metrics and
\* calculate_performance_metrics return the same value for each of the
\* eight fields of the bundle.
C27_ImplementationsAgree ==
    (SafeDone /\ PerfDone /\ fault = "none" /\ Len(returns.vals) > 0) =>
        /\ DOMAIN safe_out.metrics = Stats
        /\ DOMAIN perf_out = Stats
        /\ \A st \in Stats : safe_out.metrics[st] = perf_out[st]

(* ------------------------------------------------------------------ *)
(* Stability of an unchanged strategy (checked under SpecDiag)        *)
(* ------------------------------------------------------------------ *)
\* the bundle has the three fields the stability is computed from, each a number
HasKeyMetrics(m) ==
    \A i \in 1..Len(key_metrics) :
        key_metrics[i] \in DOMAIN m /\ IsNum(m[key_metrics[i]])

\* C28: a strategy whose forward bundle equals its historical bundle (same
\* annualized return, Sharpe ratio and win rate) has stability 1, whatever
\* the sign or the size of these values.
C28_UnchangedStrategyFullyStable ==
    StabilityDone =>
        /\ (gr_forward = gr_hist /\ HasKeyMetrics(gr_hist))
              => stability_metrics.gr_stability = Num(ROne)
        /\ (lr_forward = lr_hist /\ HasKeyMetrics(lr_hist))
              => stability_metrics.lr_stability = Num(ROne)

(* ------------------------------------------------------------------ *)
(* Well-formed drawdown episodes (checked under SpecDDLong)           *)
(* ------------------------------------------------------------------ *)
\* the first indices of the maximal runs of negative drawdown that are
\* followed by an index where the drawdown is >= 0
RecoveredRuns ==
    {j \in 0..DDLast :
        /\ InDrawdown(dd_returns, j)
        /\ j = 0 \/ ~InDrawdown(dd_returns, j - 1)
        /\ \E e \in (j + 1)..DDLast : ~InDrawdown(dd_returns, e)}

\* C26: the episodes of calculate_drawdown_periods are well formed: each has
\* start >= 1, duration >= 1 and depth < 0, they are in chronological order
\* and do not overlap (each start >= the end of the episode before), and
\* when the loop has returned their number is the number of maximal runs of
\* negative drawdown that are followed by a recovery.
C26_EpisodesWellFormed ==
    mode = "drawdown" =>
        /\ \A k \in 1..Len(dd_periods) :
              /\ dd_periods[k].start >= 1
              /\ dd_periods[k].duration >= 1
              /\ IsNum(dd_periods[k].depth)
              /\ RLess(dd_periods[k].depth.a, RZero)
              /\ dd_periods[k].start < dd_periods[k].end
              /\ k > 1 => dd_periods[k].start >= dd_periods[k - 1].end
        /\ dd_pc = "returned" => Len(dd_periods) = Cardinality(RecoveredRuns)

\* C26 witness: the loop returned two episodes, the second starting after
\* the end of the first
C26_Witness ==
    /\ mode = "drawdown" /\ dd_pc = "returned"
    /\ Len(dd_periods) = 2
    /\ dd_periods[2].start > dd_periods[1].end
    /\ dd_periods[1].duration >= 1

(* ------------------------------------------------------------------ *)
(* Expected Shortfall (checked under SpecTail)                        *)
(* ------------------------------------------------------------------ *)
\* at each confidence level the tail {r : r <= VaR} of s is non-empty and its
\* mean es[i] is a number <= the VaR v[i]
ShortfallDefined(s, v, es) ==
    \A i \in 1..Len(confidence_levels) :
        /\ TailOf(s, v[i]) # <<>>
        /\ IsNum(es[i])
        /\ ~FLess(v[i], es[i])

\* C30: on a non-empty return Series, at each of the confidence levels
\* 0.90, 0.95, 0.99, 0.995 the tail set {r : r <= VaR} is non-empty, the
\* Expected Shortfall is a defined value, and Expected Shortfall <= VaR.
C30_ShortfallDefinedAndBelowVar ==
    TailDone =>
        /\ gr_returns # <<>>
              => ShortfallDefined(gr_returns, chart_out.gr_vars, chart_out.gr_es)
        /\ lr_returns # <<>>
              => ShortfallDefined(lr_returns, chart_out.lr_vars, chart_out.lr_es)

\* C30 witness: on a Series of TailMaxLen returns the 90% tail holds more than
\* the worst return, its mean lies strictly below the VaR, and the 99.5% VaR
\* is interpolated above the worst return, which alone forms the tail
C30_Witness ==
    /\ TailDone
    /\ Len(gr_returns) = TailMaxLen
    /\ Len(TailOf(gr_returns, chart_out.gr_vars[1])) > 1
    /\ FLess(chart_out.gr_es[1], chart_out.gr_vars[1])
    /\ Len(TailOf(gr_returns, chart_out.gr_vars[4])) = 1
    /\ FLess(chart_out.gr_es[4], chart_out.gr_vars[4])

(* ------------------------------------------------------------------ *)
(* Exceptions of the diagnosis (checked under SpecDiag)               *)
(* ------------------------------------------------------------------ *)
\* C23: diagnose_problems returns its problem list without raising for every
\* combination of the four bundles, including empty bundles, a historical
\* max drawdown of 0 with a nonzero forward max drawdown, and a historical
\* average Sharpe ratio of 0 with a negative forward average.
C23_DiagnosisNeverRaises ==
    (mode = "diagnosis" /\ done \notin {{}, {"calculate_stability_metrics"}}) =>
        /\ raised = "none"
        /\ DiagnosisDone
        /\ problems # <<>>

(* ------------------------------------------------------------------ *)
(* Total return of a price Series (checked under SpecBenchmark)       *)
(* ------------------------------------------------------------------ *)
BenchmarkDone == mode = "benchmark" /\ done # {}

GapFreePrices ==
    \A t \in 1..Len(benchmark_data) : ~IsNaN(benchmark_data[t])

\* last price / first price - 1
FirstToLast ==
    Num(RSub(RDiv(benchmark_data[Len(benchmark_data)].a, benchmark_data[1].a), ROne))

ExamplePrices == <<Num(<<100, 1>>), Num(<<102, 1>>), Num(<<101, 1>>), Num(<<105, 1>>)>>

\* (1 + returns).prod() - 1 on the returns of the example prices
ExampleTotalReturn(pad) ==
    Num(RSub(SeriesProd(BenchmarkReturns(ExamplePrices, pad)), ROne))

\* C21: for a gap-free positive price Series of at least 2 observations, the
\* total return, the product of (1 + r) over its returns minus 1, equals last
\* price / first price - 1, in both metrics implementations; the prices
\* [100, 102, 101, 105] give the returns [0.02, -1/102, 4/101] and 0.05.
C21_TotalReturnIsLastOverFirst ==
    (BenchmarkDone /\ GapFreePrices /\ Len(benchmark_data) >= 2) =>
        /\ Len(returns.vals) = Len(benchmark_data) - 1
        /\ perf_out["total_return"] = FirstToLast
        /\ "safe" \in done => safe_out.metrics["total_return"] = FirstToLast
        /\ BenchmarkReturns(ExamplePrices, fill_pad)
              = <<Pct(2), Num(Norm(-1, 102)), Num(Norm(4, 101))>>
        /\ ExampleTotalReturn(fill_pad) = Pct(5)

\* C21 witness: both implementations ran on the three returns of a gap-free
\* Series that falls and rises again, and report last / first - 1 = 0.25
C21_Witness ==
    /\ BenchmarkDone /\ "safe" \in done
    /\ benchmark_data = <<Num(<<4, 1>>), Num(<<2, 1>>), Num(<<1, 1>>), Num(<<5, 1>>)>>
    /\ returns.vals = <<Num(<<-1, 2>>), Num(<<-1, 2>>), Num(<<4, 1>>)>>
    /\ perf_out["total_return"] = Pct(25)
    /\ safe_out.metrics["total_return"] = Pct(25)

(* ------------------------------------------------------------------ *)
(* Claims about get_stock_data (checked under SpecFetch)              *)
(* ------------------------------------------------------------------ *)
\* get_stock_data has returned its table
TableReturned == mode = "fetch" /\ get_pc \in {"returned", "analyzed"}

\* the symbols whose fetch produced a price series: the last yf.download
\* call of their task returned one
Succeeded ==
    {s \in SymbolSet : calls[s] # <<>> /\ calls[s][Len(calls[s])] = "series"}

\* C22: under every interleaving of the worker pool, the table
\* get_stock_data returns holds a column for exactly the symbols whose fetch
\* produced a price series, each column that series; a symbol whose fetch
\* returned nothing or raised is left out and every other symbol is still
\* there; and the success count equals the number of columns.
C22_BestEffortPartialResults ==
    TableReturned =>
        /\ stock_data.cols = Succeeded
        /\ \A s \in Succeeded : stock_data.col[s] = market[s]
        /\ success_count = Cardinality(stock_data.cols)

\* a returned table with one column, the fetch of a second symbol having
\* raised twice and the fetch of the third having returned nothing
C22_Witness ==
    /\ TableReturned
    /\ Cardinality(stock_data.cols) = 1
    /\ success_count = 1
    /\ \E s \in SymbolSet : calls[s] = <<"raises", "raises">>
    /\ \E s \in SymbolSet : calls[s] = <<"nothing">>

\* C25: every task that has returned made at most two yf.download calls,
\* made a second one whenever the first did not produce a price series, and
\* nothing was raised out of fetch_single_stock.
C25_RetryOnceOnFailure ==
    \A s \in SymbolSet :
        fetch_pc[s] = "returned" =>
            /\ Len(calls[s]) <= 2
            /\ (calls[s][1] # "series" => Len(calls[s]) = 2)
            /\ raised = "none"

\* the table of the symbols that succeeded, each with its price series,
\* whatever the order the futures completed in
TableOfSucceeded ==
    IF Succeeded = {} THEN EmptyFrame
    ELSE [cols |-> Succeeded,
          n |-> Len(market[CHOOSE s \in Succeeded : TRUE]),
          col |-> [s \in Succeeded |-> market[s]]]

\* C29: the renormalized weights, the portfolio return series and the
\* metrics computed from the table get_stock_data returned are those
\* computed from the set of symbols that succeeded and their price series
\* alone, so two runs that differ only in the order the futures completed
\* in, and so in the column order of the table, give the same results.
C29_ResultsIndependentOfCompletionOrder ==
    (mode = "fetch" /\ get_pc = "analyzed") =>
        agg_out = show_performance_analysis(TableOfSucceeded, weights, fill_pad)

\* an analysis of a table whose columns were stored in another order than
\* the symbols were submitted in, with renormalized weights and returns
C29_Witness ==
    /\ mode = "fetch" /\ get_pc = "analyzed"
    /\ columns = <<"B", "A">>
    /\ agg_out.shown
    /\ agg_out.applied # weights
    /\ Len(agg_out.returns) > 0
    /\ \A i \in 1..Len(agg_out.returns) : IsNum(agg_out.returns[i])

(* ------------------------------------------------------------------ *)
(* Claim about the inputs of an aggregation (checked under            *)
(* SpecAggSmall)                                                      *)
(* ------------------------------------------------------------------ *)
\* C24: no step of safe_portfolio_calculation, of the dashboard's
\* renormalization or of the backtest changes the weight map or the price
\* table it was called with, also when the weights were renormalized or
\* symbols were dropped.
C24_InputsNotModified ==
    [][mode = "aggregate" => (stock_data' = stock_data /\ weights' = weights)]_vars

\* an aggregation that multiplied other weights into the returns than those
\* of the weight map it was given, the map still holding a symbol without a
\* column of prices
C24_Witness ==
    /\ Aggregated
    /\ Len(agg_out.returns) > 0
    /\ agg_out.applied # weights
    /\ DOMAIN agg_out.applied # DOMAIN weights
====
